---- MODULE Spec2Model ----
(***************************************************************************)
(* nbpull: the read-only NetBox client (client.py), its paginated get      *)
(* loop, get_single and probe; the listing, batch-prefixes and setup       *)
(* commands (cli.py); the batch summary table (formatters.py); and the     *)
(* decoding of records into the models (models/).                          *)
(*                                                                         *)
(* One step of the model is one HTTP exchange together with the code that  *)
(* runs until the next exchange is awaited, or until the operation ends.   *)
(***************************************************************************)
EXTENDS Integers, Sequences, FiniteSets, TLC

(* ------------------------------------------------------------------ *)
(* Bounds                                                               *)
(* ------------------------------------------------------------------ *)
MaxPageSize == 2
MaxCap == 3
MaxN == 4
MaxRequests == 2
MaxPageLen == 2
MaxAnyRec == 1
MaxProbe == 2
MaxKeys == 2
MaxHits == 2
MaxCand == 3
MaxStr == 4
MaxEdits == 2
MaxTyped == 2

(* ------------------------------------------------------------------ *)
(* Python values                                                        *)
(* ------------------------------------------------------------------ *)
Min(a, b) == IF a <= b THEN a ELSE b

\* Optional[int]: None, or an int
None == [some |-> FALSE, v |-> 0]
Some(x) == [some |-> TRUE, v |-> x]

EmptyDict == [k \in {} |-> 0]

\* {**a, **b}: the keys of b override those of a
DictMerge(a, b) == b @@ a

\* dict.__setitem__
DictSet(d, k, x) == (k :> x) @@ d

RECURSIVE Concat(_)
Concat(ss) == IF ss = <<>> THEN <<>> ELSE Head(ss) \o Concat(Tail(ss))

\* all sequences over S of length at most n
SeqsUpTo(S, n) == UNION {[1..k -> S] : k \in 0..n}

\* those of them that hold no element twice
NoRepeatSeqs(S, n) ==
    {s \in SeqsUpTo(S, n) : \A i, j \in 1..Len(s) : i # j => s[i] # s[j]}

\* list slicing s[:n] for n >= 0
Take(s, n) == SubSeq(s, 1, Min(n, Len(s)))

\* list slicing s[:n] for any int n: a negative n counts from the end
SliceTo(s, n) ==
    IF n >= 0 THEN Take(s, n)
    ELSE IF Len(s) + n <= 0 THEN <<>>
    ELSE SubSeq(s, 1, Len(s) + n)

(* ------------------------------------------------------------------ *)
(* Strings that the code parses are sequences of characters             *)
(* ------------------------------------------------------------------ *)
K16 == <<"1", "0", "/", "1", "6">>
K8 == <<"1", "0", "/", "8">>
K24 == <<"1", "0", "/", "2", "4">>

\* raw records as they come out of the JSON 'results' array
RawRec(i, p) == [id |-> i, display |-> p, prefix |-> p]
R1 == RawRec(1, K16)
R2 == RawRec(2, K16)
R3 == RawRec(3, K8)
RBad == [id |-> 4, display |-> K24]

RecList == <<R1, R2, R3, RBad>>
Records == {RecList[i] : i \in 1..Len(RecList)}
AnyRecords == {RecList[i] : i \in 1..Min(MaxAnyRec, Len(RecList))}

(* ------------------------------------------------------------------ *)
(* Transport: httpx.AsyncClient and the server behind it                *)
(* ------------------------------------------------------------------ *)
Statuses == {200, 301, 403, 500}

ReasonPhrase(code) ==
    CASE code = 200 -> "OK"
      [] code = 301 -> "Moved Permanently"
      [] code = 403 -> "Forbidden"
      [] code = 500 -> "Internal Server Error"
      [] OTHER -> ""

NextValues == {"absent", "null", "url", "empty"}

Body(hasResults, recs, nxt) ==
    [json |-> TRUE, hasResults |-> hasResults, results |-> recs, next |-> nxt]
NotJson == [json |-> FALSE, hasResults |-> FALSE, results |-> <<>>, next |-> "absent"]
NoBody == Body(FALSE, <<>>, "absent")

Response(status, body) ==
    [kind |-> "response", status |-> status, body |-> body, msg |-> ReasonPhrase(status)]
Failure(kind, msg) ==
    [kind |-> kind, status |-> 0, body |-> NotJson, msg |-> msg]

TransportFailures ==
    { Failure("ConnectError", "All connection attempts failed"),
      Failure("TimeoutException", ""),
      Failure("Exception", "read error") }

\* a server that honours limit and offset over its dataset
HonestPage(data, limit, offset) ==
    Body(TRUE,
         IF limit <= 0 \/ offset < 0 THEN <<>>
         ELSE SubSeq(data, offset + 1, Min(offset + limit, Len(data))),
         IF offset + limit < Len(data) THEN "url" ELSE "null")

\* a server with a maximum page size of its own: it serves at most that many
\* records whatever the limit, takes a limit that is not positive as no limit
\* and an offset that is not positive as none
ServerMaxPage == 1

ClampedPage(data, limit, offset) ==
    LET n == IF limit <= 0 THEN ServerMaxPage ELSE Min(limit, ServerMaxPage)
        off == IF offset < 0 THEN 0 ELSE offset
    IN  Body(TRUE,
             SubSeq(data, off + 1, Min(off + n, Len(data))),
             IF off + n < Len(data) THEN "url" ELSE "null")

\* a server that pages by offset but serves as many records as it likes, up
\* to MaxPageLen, and signals a next page as it likes
LoosePages(data, offset) ==
    LET off == IF offset < 0 THEN 0 ELSE offset
    IN  { Body(TRUE, SubSeq(data, off + 1, Min(off + k, Len(data))), nxt) :
            k \in 0..MaxPageLen, nxt \in {"url", "null"} }

AnyBodies ==
    { Body(TRUE, recs, nxt) : recs \in SeqsUpTo(AnyRecords, MaxPageLen), nxt \in NextValues }
    \cup { Body(FALSE, <<>>, nxt) : nxt \in {"absent", "url"} }
    \cup { NotJson }

ErrorOutcomes ==
    { Response(s, NoBody) : s \in Statuses \ {200} } \cup TransportFailures

\* what one request can come back with
ServerOutcomes(srv, q) ==
    CASE srv.mode = "honest" ->
             { Response(200, HonestPage(srv.data, q["limit"], q["offset"])) }
      [] srv.mode = "any" ->
             { Response(200, b) : b \in AnyBodies } \cup ErrorOutcomes
      [] srv.mode = "status" ->
             { Response(s, NoBody) : s \in Statuses } \cup TransportFailures
      [] srv.mode = "clamped" ->
             { Response(200, ClampedPage(srv.data, q["limit"], q["offset"])) }
      [] srv.mode = "loose" ->
             { Response(200, b) : b \in LoosePages(srv.data, q["offset"]) }
      [] srv.mode = "updown" ->
             { Response(200, NoBody), Failure("ConnectError", "All connection attempts failed") }
      [] OTHER -> ErrorOutcomes

HonestServers(n) == { [mode |-> "honest", data |-> d] : d \in SeqsUpTo(Records, n) }
AnyServer == [mode |-> "any", data |-> <<>>]
StatusServer == [mode |-> "status", data |-> <<>>]
DownServer == [mode |-> "down", data |-> <<>>]
UpDownServer == [mode |-> "updown", data |-> <<>>]

\* slip: self._client.post
HttpGet_post(ep, ps) == [method |-> "POST", endpoint |-> ep, params |-> ps]

\* self._client.get(endpoint, params=...): the request that goes out
HttpGet(ep, ps) == [method |-> "GET", endpoint |-> ep, params |-> ps]

\* slip: only 4xx and 5xx raise
RaiseForStatus_4xx5xx(status) == status >= 400

\* response.raise_for_status()
RaiseForStatus(status) == ~(200 <= status /\ status <= 299)

\* the await of self._client.get plus raise_for_status plus response.json():
\* TRUE when the exchange ends in an exception
Raises(out) ==
    \/ out.kind # "response"
    \/ RaiseForStatus(out.status)
    \/ ~out.body.json

\* what the log keeps of an outcome
Seen(out) == [kind |-> out.kind, status |-> out.status, msg |-> out.msg]

ErrorName(out) ==
    IF out.kind # "response" THEN out.kind
    ELSE IF RaiseForStatus(out.status) THEN "HTTPStatusError"
    ELSE "JSONDecodeError"

(* ------------------------------------------------------------------ *)
(* State                                                                *)
(* ------------------------------------------------------------------ *)
VARIABLES
    cfg_page_size,   \* NetBoxClient._page_size (settings.page_size)
    op,              \* the running top-level operation
    pc,              \* where it stands
    server,          \* the server the current call talks to
    endpoint,        \* get: endpoint
    params,          \* get: the caller's params
    max_results,     \* get: max_results
    page_size,       \* get: effective page size
    query,           \* get: the query dict of the next request
    results,         \* get: accumulated records
    reqs,            \* requests issued by the current call, in order
    outs,            \* how each of them came back: kind, status, message
    received,        \* records of the pages received by the current get call
    nResp,           \* number of pages received by the current get call
    noNextSeen,      \* how many of them carried no 'next' value
    ret,             \* what the call handed to its caller
    endpoints,       \* probe: endpoints
    presults,        \* probe: results
    prefix_list,     \* batch_prefixes: prefix_list
    global_filters,  \* batch_prefixes: global_filters
    mode,            \* batch_prefixes: "json", "status_only" or "table"
    bi,              \* batch_prefixes: number of keys fetched so far
    batch_results,   \* batch_prefixes: batch_results
    not_found,       \* batch_prefixes: not_found
    output,          \* batch_prefixes: what was rendered, in order
    fetched,         \* batch_prefixes: what _fetch returned for each key so far
    settings,        \* what NetBoxSettings() finds in the environment and .env
    exit_code,       \* the exit status of the command, None while it runs
    fetches,         \* the calls of _fetch made by the command, in order
    prev,            \* the previous call on the client: arguments, requests, result
    arg,             \* the argument of the function applied on its own
    val,             \* its result
    env_file,        \* setup: the content of .env, None when there is no file
    batch_file,      \* setup: the content of batch_prefixes.toml, None when no file
    env_at_start,    \* setup: the content of .env when the command started
    overwrite,       \* setup: the answer to 'Overwrite existing .env?', None if not asked
    url,             \* setup: url
    token,           \* setup: token
    existing_url,    \* setup: existing_url
    existing_token,  \* setup: existing_token
    batch_at_start,  \* setup: the content of batch_prefixes.toml when the command started
    asked,           \* setup: the questions put to the user, in order
    opened,          \* the number of clients _fetch has opened
    closed           \* the number of closes of those clients

getVars == <<endpoint, params, max_results, page_size, query, results,
             received, nResp, noNextSeen>>
probeVars == <<endpoints, presults>>
batchVars == <<prefix_list, global_filters, mode, bi, batch_results, not_found, output,
               fetched>>
cmdVars == <<settings, exit_code, fetches>>
seqVars == <<prev>>
pureVars == <<arg, val>>
setupVars == <<env_file, batch_file, env_at_start, overwrite, url, token, existing_url,
               existing_token, batch_at_start, asked>>
lifeVars == <<opened, closed>>
otherVars == <<seqVars, pureVars, setupVars, lifeVars>>
vars == <<cfg_page_size, op, pc, server, getVars, reqs, outs, ret, probeVars, batchVars,
          cmdVars, otherVars>>

PageSizes == 1..MaxPageSize
Caps == {None} \cup {Some(c) : c \in 1..MaxCap}
ParamChoices == { None, Some(EmptyDict), Some([status |-> "active"]) }
Endpoints == {"status/", "ipam/prefixes/", "ipam/vlans/"}
DefaultEndpoints ==
    <<"status/", "ipam/prefixes/", "ipam/ip-addresses/", "ipam/vlans/", "ipam/vrfs/">>

NoRet == [kind |-> "none", list |-> <<>>, err |-> ""]
RetList(l) == [kind |-> "list", list |-> l, err |-> ""]
RetError(e) == [kind |-> "error", list |-> <<>>, err |-> e]

GetInit ==
    /\ endpoint = ""
    /\ params = None
    /\ max_results = None
    /\ page_size = 0
    /\ query = EmptyDict
    /\ results = <<>>
    /\ received = <<>>
    /\ nResp = 0
    /\ noNextSeen = 0

ProbeInit ==
    /\ endpoints = <<>>
    /\ presults = <<>>

BatchInit ==
    /\ prefix_list = <<>>
    /\ global_filters = EmptyDict
    /\ mode = "table"
    /\ bi = 0
    /\ batch_results = <<>>
    /\ not_found = <<>>
    /\ output = <<>>
    /\ fetched = <<>>

\* the environment holds valid settings, lacks a required one, or holds one
\* that does not validate
SettingsStates == {"ok", "missing", "invalid"}

CmdInit ==
    /\ exit_code = None
    /\ fetches = <<>>
    /\ opened = 0
    /\ closed = 0

NoPrev == [op |-> "none", endpoint |-> "", params |-> None, max_results |-> None,
           server |-> DownServer, reqs |-> <<>>, ret |-> NoRet]

SeqInit == prev = NoPrev

PureInit ==
    /\ arg = <<>>
    /\ val = <<>>

SetupInit ==
    /\ env_file = None
    /\ batch_file = None
    /\ env_at_start = None
    /\ overwrite = None
    /\ url = <<>>
    /\ token = <<>>
    /\ existing_url = <<>>
    /\ existing_token = <<>>
    /\ batch_at_start = None
    /\ asked = <<>>

Init ==
    /\ cfg_page_size \in PageSizes
    /\ op = "idle"
    /\ pc = "idle"
    /\ server = DownServer
    /\ reqs = <<>>
    /\ outs = <<>>
    /\ ret = NoRet
    /\ GetInit
    /\ ProbeInit
    /\ BatchInit
    /\ settings \in SettingsStates
    /\ CmdInit
    /\ SeqInit
    /\ PureInit
    /\ SetupInit

(* ------------------------------------------------------------------ *)
(* NetBoxClient.get                                                     *)
(* ------------------------------------------------------------------ *)
\* params or {}
ParamsOrEmpty(ps) == IF ps.some THEN ps.v ELSE EmptyDict

\* slip: the cap itself is the page size
EffectivePageSize_cap(cfg, mr) == IF mr.some THEN mr.v ELSE cfg

\* min(self._page_size, max_results) if max_results is not None else self._page_size
EffectivePageSize(cfg, mr) == IF mr.some THEN Min(cfg, mr.v) ELSE cfg

\* slip: the offset is kept on the client and carried into the next call
InitialQuery_keep(ps, size) ==
    DictMerge(ParamsOrEmpty(ps),
              [limit |-> size,
               offset |-> IF "offset" \in DOMAIN query THEN query["offset"] ELSE 0])

\* slip: the caller's filters are merged last and win
InitialQuery_callerWins(ps, size) ==
    DictMerge([limit |-> size, offset |-> 0], ParamsOrEmpty(ps))

\* query: dict[str, Any] = {**(params or {}), "limit": page_size, "offset": 0}
InitialQuery(ps, size) ==
    DictMerge(ParamsOrEmpty(ps), [limit |-> size, offset |-> 0])

\* data.get("results", [])
DataGetResults(data) == IF data.hasResults THEN data.results ELSE <<>>

\* slip: a page without records is taken for the last one
NextIsNone_orEmpty(data) == data.next \in {"absent", "null"} \/ DataGetResults(data) = <<>>

\* slip: 'not data.get("next")', which also stops on an empty string
NextIsNone_falsy(data) == data.next \in {"absent", "null", "empty"}

\* data.get("next") is None
NextIsNone(data) == data.next \in {"absent", "null"}

\* slip: the new page goes in front of the accumulated records
Extend_prepend(acc, page) == page \o acc

\* results.extend(...)
Extend(acc, page) == acc \o page

\* slip: '>' for '>='
CapReached_gt(mr, acc) == mr.some /\ Len(acc) > mr.v

\* max_results is not None and len(results) >= max_results
CapReached(mr, acc) == mr.some /\ Len(acc) >= mr.v

\* results[:max_results]
Truncate(acc, mr) == SliceTo(acc, mr.v)

\* slip: the offset is set to the page size instead of advanced by it
NextQuery_assign(q, size) == DictSet(q, "offset", size)

\* query["offset"] = query["offset"] + page_size
NextQuery(q, size) == DictSet(q, "offset", q["offset"] + size)

\* where the caller of get goes on when get returns
ReturnPc ==
    CASE op = "batch" -> "batch_ret"
      [] op = "list" -> "list_ret"
      [] OTHER -> "done"

\* an exception nobody catches ends a command with status 1; a bare call on
\* the client has no exit status
UncaughtExit == IF op \in {"batch", "list"} THEN Some(1) ELSE exit_code

\* slip: the accumulator is kept on the client and never emptied
NewAccumulator_shared == results

\* results: list[dict[str, Any]] = []
NewAccumulator == <<>>

\* the code of get up to its first request
GetEnter(ep, ps, mr, srv) ==
    /\ server' = srv
    /\ endpoint' = ep
    /\ params' = ps
    /\ max_results' = mr
    /\ page_size' = EffectivePageSize(cfg_page_size, mr)
    /\ query' = InitialQuery(ps, EffectivePageSize(cfg_page_size, mr))
    /\ results' = NewAccumulator
    /\ received' = <<>>
    /\ nResp' = 0
    /\ noNextSeen' = 0
    /\ reqs' = <<>>
    /\ outs' = <<>>
    /\ ret' = NoRet
    /\ pc' = "get_loop"

StartGet ==
    /\ pc = "idle"
    /\ settings = "ok"
    /\ \E ep \in {"ipam/prefixes/"}, ps \in ParamChoices, mr \in Caps,
          srv \in HonestServers(MaxN) \cup {AnyServer} :
          GetEnter(ep, ps, mr, srv)
    /\ op' = "get"
    /\ UNCHANGED <<cfg_page_size, probeVars, batchVars, cmdVars, otherVars>>

\* slip: the client is closed only when get returns
AExit_onReturn(raised) == ~raised

\* 'async with NetBoxClient(settings) as client': __aexit__ runs, and closes
\* the client, however the body is left, by return or by exception
AExit(raised) == TRUE

\* the closes counted once get has ended: _fetch holds its call of get in the
\* async with block, a caller of client.get itself does not
ClosedAfter(raised) ==
    IF op \in {"batch", "list"} /\ AExit(raised) THEN closed + 1 ELSE closed

\* one turn of the while loop: request, response, accumulate, decide
GetStep ==
    /\ pc = "get_loop"
    \* a server that answers anything can keep the loop going for ever, and
    \* so can a page size that does not advance the offset
    /\ (server.mode \in {"any", "loose"} \/ page_size <= 0) => Len(reqs) < MaxRequests
    /\ \E out \in ServerOutcomes(server, query) :
        /\ reqs' = Append(reqs, HttpGet(endpoint, query))
        /\ outs' = Append(outs, Seen(out))
        /\ IF Raises(out)
           THEN /\ pc' = "raised"
                /\ ret' = RetError(ErrorName(out))
                /\ exit_code' = UncaughtExit
                /\ closed' = ClosedAfter(TRUE)
                /\ UNCHANGED <<results, query, received, nResp, noNextSeen>>
           ELSE LET data == out.body
                    acc == Extend(results, DataGetResults(data))
                IN  /\ UNCHANGED exit_code
                    /\ received' = received \o (IF data.hasResults THEN data.results ELSE <<>>)
                    /\ nResp' = nResp + 1
                    /\ noNextSeen' = noNextSeen + (IF data.next \in {"absent", "null"} THEN 1 ELSE 0)
                    /\ IF CapReached(max_results, acc)
                       THEN /\ results' = Truncate(acc, max_results)
                            /\ ret' = RetList(Truncate(acc, max_results))
                            /\ pc' = ReturnPc
                            /\ closed' = ClosedAfter(FALSE)
                            /\ UNCHANGED query
                       ELSE IF NextIsNone(data)
                       THEN /\ results' = acc
                            /\ ret' = RetList(acc)
                            /\ pc' = ReturnPc
                            /\ closed' = ClosedAfter(FALSE)
                            /\ UNCHANGED query
                       ELSE /\ results' = acc
                            /\ query' = NextQuery(query, page_size)
                            /\ UNCHANGED <<pc, ret, closed>>
    /\ UNCHANGED opened
    /\ UNCHANGED <<cfg_page_size, op, server, endpoint, params, max_results, page_size,
                   probeVars, batchVars, settings, fetches, seqVars, pureVars, setupVars>>

(* ------------------------------------------------------------------ *)
(* NetBoxClient.get_single                                              *)
(* ------------------------------------------------------------------ *)
GetSingle ==
    /\ pc = "idle"
    /\ settings = "ok"
    /\ \E ep \in {"ipam/prefixes/42/"}, ps \in ParamChoices :
        \E out \in ServerOutcomes(AnyServer, EmptyDict) :
            /\ endpoint' = ep
            /\ params' = ps
            /\ reqs' = <<HttpGet(ep, ParamsOrEmpty(ps))>>
            /\ outs' = <<Seen(out)>>
            /\ IF Raises(out)
               THEN /\ pc' = "raised"
                    /\ ret' = RetError(ErrorName(out))
               ELSE /\ pc' = "done"
                    /\ ret' = [kind |-> "dict", list |-> <<out.body>>, err |-> ""]
    /\ op' = "get_single"
    /\ server' = AnyServer
    /\ UNCHANGED <<cfg_page_size, max_results, page_size, query, results, received,
                   nResp, noNextSeen, probeVars, batchVars, cmdVars, otherVars>>

(* ------------------------------------------------------------------ *)
(* NetBoxClient.probe                                                   *)
(* ------------------------------------------------------------------ *)
\* slip: limit=1 also for 'status/'
ProbeParams_always(ep) == DictSet(EmptyDict, "limit", 1)

ProbeParams(ep) == IF ep # "status/" THEN DictSet(EmptyDict, "limit", 1) ELSE EmptyDict

\* f"{code} OK", f"{code} {reason}", and the fixed texts
Detail(code, text) == [code |-> code, text |-> text]

\* slip: a timeout reported under the text of a connection failure
ProbeEntry_timeout(ep, out) ==
    IF out.kind = "response" /\ ~RaiseForStatus(out.status)
        THEN <<ep, TRUE, Detail(out.status, "OK")>>
    ELSE IF out.kind = "response"
        THEN <<ep, FALSE, Detail(out.status, out.msg)>>
    ELSE IF out.kind \in {"ConnectError", "TimeoutException"}
        THEN <<ep, FALSE, Detail(0, "Connection refused")>>
    ELSE <<ep, FALSE, Detail(0, out.msg)>>

\* the tuple one endpoint adds to results
ProbeEntry(ep, out) ==
    IF out.kind = "response" /\ ~RaiseForStatus(out.status)
        THEN <<ep, TRUE, Detail(out.status, "OK")>>
    ELSE IF out.kind = "response"
        THEN <<ep, FALSE, Detail(out.status, out.msg)>>
    ELSE IF out.kind = "ConnectError"
        THEN <<ep, FALSE, Detail(0, "Connection refused")>>
    ELSE IF out.kind = "TimeoutException"
        THEN <<ep, FALSE, Detail(0, "Timeout")>>
    ELSE <<ep, FALSE, Detail(0, out.msg)>>

\* the code of probe up to its first request
ProbeEnter(eps) ==
    LET list == IF eps.some THEN eps.v ELSE DefaultEndpoints
    IN  /\ endpoints' = list
        /\ presults' = <<>>
        /\ IF list = <<>>
           THEN /\ pc' = "done"
                /\ ret' = [kind |-> "probe", list |-> <<>>, err |-> ""]
           ELSE /\ pc' = "probe_loop"
                /\ ret' = NoRet

StartProbe ==
    /\ pc = "idle"
    /\ settings = "ok"
    /\ \E eps \in {None} \cup {Some(l) : l \in SeqsUpTo(Endpoints, MaxProbe)} :
        ProbeEnter(eps)
    /\ op' = "probe"
    /\ server' = StatusServer
    /\ UNCHANGED <<cfg_page_size, reqs, outs, getVars, batchVars, cmdVars, otherVars>>

\* one turn of the for loop: one endpoint, one request, one tuple
ProbeStep ==
    /\ pc = "probe_loop"
    /\ LET ep == endpoints[Len(presults) + 1]
       IN  \E out \in ServerOutcomes(server, ProbeParams(ep)) :
            /\ reqs' = Append(reqs, HttpGet(ep, ProbeParams(ep)))
            /\ outs' = Append(outs, Seen(out))
            /\ presults' = Append(presults, ProbeEntry(ep, out))
            /\ IF Len(presults) + 1 = Len(endpoints)
               THEN /\ pc' = IF op = "setup" THEN "setup_batch" ELSE "done"
                    /\ ret' = [kind |-> "probe", list |-> Append(presults, ProbeEntry(ep, out)),
                               err |-> ""]
               ELSE UNCHANGED <<pc, ret>>
    /\ UNCHANGED <<cfg_page_size, op, server, getVars, endpoints, batchVars, cmdVars,
                   otherVars>>

(* ------------------------------------------------------------------ *)
(* Prefix model and the batch summary (models/prefix.py, formatters.py) *)
(* ------------------------------------------------------------------ *)
\* Prefix.model_validate succeeds when id, display and prefix are there
Validates(raw) == {"id", "display", "prefix"} \subseteq DOMAIN raw

\* the Prefix object: the required fields plus the defaults of absent ones
ModelValidate(raw) ==
    [id |-> raw.id, display |-> raw.display, prefix |-> raw.prefix,
     description |-> IF "description" \in DOMAIN raw THEN raw.description ELSE <<>>]

RECURSIVE MapValidate(_)
MapValidate(raws) ==
    IF raws = <<>> THEN <<>>
    ELSE <<ModelValidate(Head(raws))>> \o MapValidate(Tail(raws))

Digits == {"0", "1", "2", "3", "4", "5", "6", "7", "8", "9"}
DigitVal(c) ==
    CASE c = "0" -> 0 [] c = "1" -> 1 [] c = "2" -> 2 [] c = "3" -> 3 [] c = "4" -> 4
      [] c = "5" -> 5 [] c = "6" -> 6 [] c = "7" -> 7 [] c = "8" -> 8 [] OTHER -> 9

\* str.split(sep): the segments between the separators
RECURSIVE Split(_, _)
Split(s, sep) ==
    IF \A i \in 1..Len(s) : s[i] # sep THEN <<s>>
    ELSE LET k == CHOOSE i \in 1..Len(s) : s[i] = sep /\ \A j \in 1..(i - 1) : s[j] # sep
         IN  <<SubSeq(s, 1, k - 1)>> \o Split(SubSeq(s, k + 1, Len(s)), sep)

\* str.strip() of blanks
RECURSIVE Strip(_)
Strip(s) ==
    IF s = <<>> THEN s
    ELSE IF Head(s) = " " THEN Strip(Tail(s))
    ELSE IF s[Len(s)] = " " THEN Strip(SubSeq(s, 1, Len(s) - 1))
    ELSE s

RECURSIVE DigitsValue(_, _)
DigitsValue(s, acc) ==
    IF s = <<>> THEN acc
    ELSE IF Head(s) = "_" THEN DigitsValue(Tail(s), acc)
    ELSE DigitsValue(Tail(s), 10 * acc + DigitVal(Head(s)))

\* int(text): blanks stripped, an optional sign, digits with single underscores
\* between them; anything else is a ValueError
PyInt(text) ==
    LET t == Strip(text)
        signed == t # <<>> /\ Head(t) \in {"+", "-"}
        body == IF signed THEN Tail(t) ELSE t
        wellFormed ==
            /\ body # <<>>
            /\ \A i \in 1..Len(body) : body[i] \in Digits \cup {"_"}
            /\ body[1] \in Digits
            /\ body[Len(body)] \in Digits
            /\ \A i \in 1..(Len(body) - 1) : ~(body[i] = "_" /\ body[i + 1] = "_")
    IN  IF ~wellFormed THEN [ok |-> FALSE, v |-> 0]
        ELSE [ok |-> TRUE,
              v |-> IF signed /\ Head(t) = "-" THEN 0 - DigitsValue(body, 0)
                    ELSE DigitsValue(body, 0)]

\* the try body of _prefix_len, int(prefix.split("/")[1]): the value, or the
\* exception it ends in
MaskPart(prefix) ==
    LET parts == Split(prefix, "/")
    IN  IF Len(parts) < 2 THEN [exc |-> "IndexError", v |-> 0]
        ELSE IF PyInt(parts[2]).ok THEN [exc |-> "", v |-> PyInt(parts[2]).v]
        ELSE [exc |-> "ValueError", v |-> 0]

\* slip: 'except IndexError' alone
Caught_index == {"IndexError"}

\* except (IndexError, ValueError)
Caught == {"IndexError", "ValueError"}

\* a call of _prefix_len: what it returns, or that it raised
PrefixLenCall(prefix) ==
    LET r == MaskPart(prefix)
    IN  IF r.exc = "" THEN [raised |-> FALSE, v |-> r.v]
        ELSE IF r.exc \in Caught THEN [raised |-> FALSE, v |-> 0]
        ELSE [raised |-> TRUE, v |-> 0]

\* _prefix_len
PrefixLen(prefix) == PrefixLenCall(prefix).v

\* slip: among the largest the last one wins
MaxByPrefixLen_last(parents) ==
    LET i == CHOOSE k \in 1..Len(parents) :
                 /\ \A j \in 1..Len(parents) :
                        PrefixLen(parents[j].prefix) <= PrefixLen(parents[k].prefix)
                 /\ \A j \in (k + 1)..Len(parents) :
                        PrefixLen(parents[j].prefix) < PrefixLen(parents[k].prefix)
    IN  parents[i]

\* max(parents, key=...): the first of the largest
MaxByPrefixLen(parents) ==
    LET i == CHOOSE k \in 1..Len(parents) :
                 /\ \A j \in 1..Len(parents) :
                        PrefixLen(parents[j].prefix) <= PrefixLen(parents[k].prefix)
                 /\ \A j \in 1..(k - 1) :
                        PrefixLen(parents[j].prefix) < PrefixLen(parents[k].prefix)
    IN  parents[i]

Row(cidr, kind, recs) == [key |-> cidr, kind |-> kind, recs |-> recs]

RECURSIVE ExactRows(_, _)
ExactRows(cidr, direct) ==
    IF direct = <<>> THEN <<>>
    ELSE <<Row(cidr, "exact", <<Head(direct)>>)>> \o ExactRows(cidr, Tail(direct))

\* slip: only the first direct match gets a row
SummaryRows_first(cidr, records) ==
    LET IsDirect(r) == r.prefix = cidr
        IsParent(r) == r.prefix # cidr
        direct == SelectSeq(records, IsDirect)
        parents == SelectSeq(records, IsParent)
    IN  IF direct # <<>> THEN <<Row(cidr, "exact", <<Head(direct)>>)>>
        ELSE IF parents # <<>> THEN <<Row(cidr, "approx", <<MaxByPrefixLen(parents)>>)>>
        ELSE <<>>

\* the rows print_batch_summary adds for one entry of results
SummaryRows(cidr, records) ==
    LET IsDirect(r) == r.prefix = cidr
        IsParent(r) == r.prefix # cidr
        direct == SelectSeq(records, IsDirect)
        parents == SelectSeq(records, IsParent)
    IN  IF direct # <<>> THEN ExactRows(cidr, direct)
        ELSE IF parents # <<>> THEN <<Row(cidr, "approx", <<MaxByPrefixLen(parents)>>)>>
        ELSE <<>>

RECURSIVE SummaryResultRows(_)
SummaryResultRows(found) ==
    IF found = <<>> THEN <<>>
    ELSE SummaryRows(Head(found)[1], Head(found)[2]) \o SummaryResultRows(Tail(found))

RECURSIVE NotFoundRows(_)
NotFoundRows(missing) ==
    IF missing = <<>> THEN <<>>
    ELSE <<Row(Head(missing), "notfound", <<>>)>> \o NotFoundRows(Tail(missing))

\* print_batch_summary: the table rows, top to bottom
PrintBatchSummary(found, missing) == SummaryResultRows(found) \o NotFoundRows(missing)

RECURSIVE SectionRows(_)
SectionRows(found) ==
    IF found = <<>> THEN <<>>
    ELSE <<Row(Head(found)[1], "records", Head(found)[2])>> \o SectionRows(Tail(found))

\* the json and table renderings: one section per entry of batch_results, then
\* one per entry of not_found
PrintSections(found, missing) == SectionRows(found) \o NotFoundRows(missing)

\* slip: the not-found keys are rendered before the keys with records
Render_missing_first(m, found, missing) ==
    IF m = "json" THEN NotFoundRows(missing) \o SectionRows(found)
    ELSE IF m = "status_only" THEN NotFoundRows(missing) \o SummaryResultRows(found)
    ELSE NotFoundRows(missing) \o SectionRows(found)

\* the 'Render results' part of batch_prefixes
Render(m, found, missing) ==
    IF m = "json" THEN PrintSections(found, missing)
    ELSE IF m = "status_only" THEN PrintBatchSummary(found, missing)
    ELSE PrintSections(found, missing)

(* ------------------------------------------------------------------ *)
(* batch_prefixes (cli.py)                                              *)
(* ------------------------------------------------------------------ *)
Keys == {K16, K8}
FilterChoices == { EmptyDict, [status |-> "active"], [q |-> "10"] }
Modes == {"json", "status_only", "table"}

\* _build_params(**kwargs): the keyword arguments, None dropped
BuildParams(kwargs) ==
    [k \in {x \in DOMAIN kwargs : kwargs[x].some} |-> kwargs[k].v]

\* the call _build_params(q=cidr, **global_filters) names q twice when the
\* filters hold a key q: Python raises TypeError before the body runs
KwargsClash(filters) == "q" \in DOMAIN filters

BatchKwargs(cidr, filters) ==
    [k \in DOMAIN filters \cup {"q"} |-> IF k = "q" THEN Some(cidr) ELSE Some(filters[k])]

\* what a free-text search can answer: a list of different prefixes, a list
\* with a record that does not validate, or failures
BatchDatasets ==
    NoRepeatSeqs({r \in Records : Validates(r)}, MaxHits) \cup { <<RBad>>, <<R1, RBad>> }

BatchServers == { [mode |-> "honest", data |-> d] : d \in BatchDatasets } \cup {DownServer}

\* the batch file: missing, or its 'prefixes' list and its 'filters' table
NoFile == [exists |-> FALSE, prefixes |-> <<>>, filters |-> EmptyDict]
BatchFile(pl, gf) == [exists |-> TRUE, prefixes |-> pl, filters |-> gf]
BatchFiles ==
    {NoFile} \cup { BatchFile(pl, gf) : pl \in SeqsUpTo(Keys, MaxKeys), gf \in FilterChoices }

\* _load_batch_toml raises typer.Exit(code=1)
LoadFails(file) == ~file.exists \/ file.prefixes = <<>>

\* slip: only a missing setting is noticed
GetSettingsFails_missing == settings = "missing"

\* _get_settings raises typer.Exit(code=2)
GetSettingsFails == settings # "ok"

\* a call of _fetch: _get_settings, then a client of its own and client.get up
\* to its first request
Fetch(ep, ps, mr, srv) ==
    /\ fetches' = Append(fetches, [endpoint |-> ep, params |-> ps, max_results |-> mr])
    /\ IF GetSettingsFails
       THEN /\ pc' = "exited"
            /\ exit_code' = Some(2)
            /\ UNCHANGED <<server, getVars, reqs, outs, ret, lifeVars>>
       ELSE /\ opened' = opened + 1
            /\ GetEnter(ep, ps, mr, srv)
            /\ UNCHANGED <<exit_code, closed>>

\* the head of one turn of the loop over prefix_list: the parameters, then
\* _fetch("ipam/prefixes/", params)
BatchFetch(cidr, filters, srv) ==
    IF KwargsClash(filters)
    THEN /\ pc' = "raised"
         /\ ret' = RetError("TypeError")
         /\ exit_code' = Some(1)
         /\ UNCHANGED <<server, getVars, reqs, outs, fetches, lifeVars>>
    ELSE Fetch("ipam/prefixes/", Some(BuildParams(BatchKwargs(cidr, filters))), None, srv)

\* batch_prefixes up to the first request of its first fetch
BatchEnter(file, m, srv) ==
    /\ mode' = m
    /\ IF LoadFails(file)
       THEN /\ pc' = "exited"
            /\ exit_code' = Some(1)
            /\ UNCHANGED <<prefix_list, global_filters, server, getVars, reqs, outs, ret,
                           fetches, lifeVars>>
       ELSE /\ prefix_list' = file.prefixes
            /\ global_filters' = file.filters
            /\ BatchFetch(file.prefixes[1], file.filters, srv)

StartBatch ==
    /\ pc = "idle"
    /\ \E file \in BatchFiles, m \in Modes, srv \in BatchServers : BatchEnter(file, m, srv)
    /\ op' = "batch"
    /\ bi' = 0
    /\ batch_results' = <<>>
    /\ not_found' = <<>>
    /\ output' = <<>>
    /\ fetched' = <<>>
    /\ UNCHANGED <<cfg_page_size, probeVars, settings, seqVars, pureVars, setupVars>>

\* slip: every key is listed as not found
NotFoundAfter_always(missing, cidr, records) == Append(missing, cidr)

\* 'if records: batch_results.append(...) else: not_found.append(cidr)'
NotFoundAfter(missing, cidr, records) ==
    IF records # <<>> THEN missing ELSE Append(missing, cidr)

ResultsAfter(found, cidr, records) ==
    IF records # <<>> THEN Append(found, <<cidr, records>>) ELSE found

\* the fields without default of the model behind an endpoint
RequiredFields(ep) ==
    CASE ep = "ipam/prefixes/" -> {"id", "display", "prefix"}
      [] ep = "ipam/ip-addresses/" -> {"id", "display", "address"}
      [] ep = "ipam/vlans/" -> {"id", "display", "vid", "name"}
      [] OTHER -> {"id", "display", "name"}

ValidatesAs(ep, raw) == RequiredFields(ep) \subseteq DOMAIN raw

\* slip: a record that does not validate is left out
ValidateAll_skip(ep, raws) ==
    [raised |-> FALSE,
     v |-> MapValidate(SelectSeq(raws, LAMBDA raw : ValidatesAs(ep, raw)))]

\* [Model.model_validate(r) for r in raw]: the objects, or the
\* ValidationError of the first record that does not validate
ValidateAll(ep, raws) ==
    IF \E i \in 1..Len(raws) : ~ValidatesAs(ep, raws[i])
    THEN [raised |-> TRUE, v |-> <<>>]
    ELSE [raised |-> FALSE, v |-> MapValidate(raws)]

\* the rest of the loop body after _fetch returned, then either the next key's
\* fetch or the rendering
BatchAfterFetch ==
    /\ pc = "batch_ret"
    /\ LET cidr == prefix_list[bi + 1]
           raw == ret.list
           validated == ValidateAll(endpoint, raw)
       IN  IF validated.raised
           THEN /\ pc' = "raised"
                /\ ret' = RetError("ValidationError")
                /\ exit_code' = Some(1)
                /\ fetched' = Append(fetched, raw)
                /\ UNCHANGED <<server, getVars, reqs, outs, bi, batch_results, not_found,
                               output, fetches, lifeVars>>
           ELSE LET records == validated.v
                    found == ResultsAfter(batch_results, cidr, records)
                    missing == NotFoundAfter(not_found, cidr, records)
                IN  /\ fetched' = Append(fetched, raw)
                    /\ batch_results' = found
                    /\ not_found' = missing
                    /\ bi' = bi + 1
                    /\ IF bi + 1 < Len(prefix_list)
                       THEN /\ \E srv \in BatchServers :
                                    BatchFetch(prefix_list[bi + 2], global_filters, srv)
                            /\ UNCHANGED output
                       ELSE /\ output' = Render(mode, found, missing)
                            /\ pc' = "done"
                            /\ ret' = NoRet
                            /\ exit_code' = Some(0)
                            /\ UNCHANGED <<server, getVars, reqs, outs, fetches, lifeVars>>
    /\ UNCHANGED <<cfg_page_size, op, probeVars, prefix_list, global_filters, mode, settings,
                   seqVars, pureVars, setupVars>>

(* ------------------------------------------------------------------ *)
(* The listing commands: prefixes, ip-addresses, vlans, vrfs (cli.py)   *)
(* ------------------------------------------------------------------ *)
ListCommands == {"prefixes", "ip-addresses", "vlans", "vrfs"}

ListEndpoint(cmd) ==
    CASE cmd = "prefixes" -> "ipam/prefixes/"
      [] cmd = "ip-addresses" -> "ipam/ip-addresses/"
      [] cmd = "vlans" -> "ipam/vlans/"
      [] OTHER -> "ipam/vrfs/"

\* the options of a listing command as keyword arguments: given or None
ListKwargs == [{"status", "q"} -> {None, Some("active")}]

\* the datasets behind a listing: the first n records of RecList, or a valid
\* record followed by one that lacks a required field
ListServers ==
    { [mode |-> "honest", data |-> Take(RecList, n)] : n \in 0..MaxN }
        \cup { [mode |-> "honest", data |-> <<R1, RBad>>], DownServer }

\* a listing command up to the first request of its fetch
StartList ==
    /\ pc = "idle"
    /\ \E cmd \in ListCommands, kw \in ListKwargs, limit \in 1..MaxCap, srv \in ListServers :
        Fetch(ListEndpoint(cmd), Some(BuildParams(kw)), Some(limit), srv)
    /\ op' = "list"
    /\ UNCHANGED <<cfg_page_size, probeVars, batchVars, settings, seqVars, pureVars,
                   setupVars>>

\* the rest of a listing command: validate the records, print them
ListAfterFetch ==
    /\ pc = "list_ret"
    /\ IF ValidateAll(endpoint, ret.list).raised
       THEN /\ pc' = "raised"
            /\ ret' = RetError("ValidationError")
            /\ exit_code' = Some(1)
            /\ UNCHANGED output
       ELSE /\ pc' = "done"
            /\ ret' = NoRet
            /\ exit_code' = Some(0)
            /\ output' = <<Row(endpoint, "records", ValidateAll(endpoint, ret.list).v)>>
    /\ UNCHANGED <<cfg_page_size, op, server, getVars, reqs, outs, probeVars, prefix_list,
                   global_filters, mode, bi, batch_results, not_found, fetched, settings,
                   fetches, otherVars>>

Next ==
    \/ StartGet
    \/ GetStep
    \/ GetSingle
    \/ StartProbe
    \/ ProbeStep
    \/ StartBatch
    \/ BatchAfterFetch
    \/ StartList
    \/ ListAfterFetch

Spec == Init /\ [][Next]_vars

(* ------------------------------------------------------------------ *)
(* Properties of NetBoxClient.get                                       *)
(* ------------------------------------------------------------------ *)
InGet == op = "get"
Capped == max_results.some /\ max_results.v >= 1
Honest == server.mode = "honest"
Is2xx(status) == 200 <= status /\ status <= 299
\* the get call has returned to its caller
GetReturned == (op = "get" /\ pc = "done") \/ (op = "batch" /\ pc = "batch_ret")
\* the get call is between two requests
GetRunning == op \in {"get", "batch"} /\ pc = "get_loop"

\* C1: with a cap c >= 1, a page size >= 1 and a server that honours limit and
\* offset over N records, get never raises, keeps asking only while it holds
\* fewer than min(N, c) records, and returns exactly the first min(N, c)
\* records of the dataset in server order.
C1_CappedFetchReturnsFirstMin ==
    (InGet /\ Capped /\ Honest /\ cfg_page_size >= 1) =>
        LET n == Min(Len(server.data), max_results.v)
        IN  /\ pc # "raised"
            /\ (pc = "get_loop" /\ Len(reqs) > 0) => Len(reqs) < n
            /\ pc = "done" => (ret.kind = "list" /\ ret.list = SubSeq(server.data, 1, n))

C1_Witness ==
    /\ InGet /\ Capped /\ Honest /\ pc = "done"
    /\ Len(server.data) > max_results.v
    /\ Len(reqs) >= 2
    /\ Len(ret.list) = max_results.v

\* C2: a get call without max_results that returns hands out exactly the
\* concatenation, in request order, of the 'results' arrays of the pages it
\* received.
C2_UncappedFetchIsConcatenation ==
    (GetReturned /\ ~max_results.some) =>
        (ret.kind = "list" /\ ret.list = received)

C2_Witness ==
    /\ InGet /\ ~max_results.some /\ pc = "done"
    /\ nResp >= 2
    /\ Len(ret.list) >= 3
    /\ ret.list[1] # ret.list[3]

\* C3: a get call without max_results returns exactly when a page response
\* carries no 'next' value (absent or null): it returns on the first such
\* response, without a further request, and while every response so far carried
\* one it has not returned.
C3_UncappedStopsOnFirstMissingNext ==
    (op \in {"get", "batch"} /\ ~max_results.some) =>
        /\ GetReturned => (noNextSeen = 1 /\ Len(reqs) = nResp /\ ret.kind = "list")
        /\ GetRunning => noNextSeen = 0
        /\ (InGet /\ pc = "raised") => noNextSeen = 0

C3_Witness ==
    /\ InGet /\ ~max_results.some /\ pc = "done" /\ server.mode = "any"
    /\ nResp >= 2
    /\ Len(received) >= 2
    /\ noNextSeen = 1

\* C4: with max_results = c >= 1, get never goes round the loop again once the
\* pages received hold c records or more, whether or not the last page
\* signalled a next page, and what it returns then is the first c records
\* received.
C4_CapStopsAndTruncates ==
    (InGet /\ Capped) =>
        /\ pc = "get_loop" => Len(received) < max_results.v
        /\ (pc = "done" /\ Len(received) >= max_results.v) =>
                /\ ret.kind = "list"
                /\ ret.list = SubSeq(received, 1, max_results.v)
                /\ Len(reqs) = nResp

C4_Witness ==
    /\ InGet /\ Capped /\ pc = "done" /\ server.mode = "any"
    /\ noNextSeen = 0
    /\ Len(received) > max_results.v
    /\ nResp >= 2

\* C5: a non-2xx response to a page request of get (or to get_single's request)
\* makes the call raise: no list is returned, the failed request is the last
\* one of the call and was issued once.
C5_HttpErrorAbortsFetch ==
    (op \in {"get", "get_single", "batch"} /\ outs # <<>>
        /\ outs[Len(outs)].kind = "response" /\ ~Is2xx(outs[Len(outs)].status)) =>
        /\ pc = "raised"
        /\ ret.kind = "error"
        /\ ret.err = "HTTPStatusError"
        /\ ret.list = <<>>
        /\ Len(reqs) = nResp + 1
        /\ Len(outs) = Len(reqs)

C5_Witness ==
    /\ InGet /\ pc = "raised" /\ ret.err = "HTTPStatusError"
    /\ nResp >= 1
    /\ Len(received) >= 1
    /\ outs[Len(outs)].status = 301

(* ------------------------------------------------------------------ *)
(* Properties of the client as a whole and of probe                     *)
(* ------------------------------------------------------------------ *)
\* C6: every request the client issues, in get, get_single and probe, on
\* success and on error paths, uses the method GET.
C6_OnlyGetRequests ==
    \A i \in 1..Len(reqs) : reqs[i].method = "GET"

C6_Witness ==
    /\ op = "probe" /\ pc = "done"
    /\ Len(reqs) >= 2
    /\ \E i \in 1..Len(presults) : ~presults[i][2]
    /\ \E i \in 1..Len(presults) : presults[i][2]

\* C7: probe issues one GET per endpoint in input order (no parameters for
\* 'status/', limit=1 otherwise), records one tuple per endpoint in the same
\* order, goes on after a failed endpoint, and returns these tuples.
C7_ProbeOrderAndCoverage ==
    op = "probe" =>
        /\ Len(presults) = Len(reqs)
        /\ Len(presults) <= Len(endpoints)
        /\ \A i \in 1..Len(presults) :
            /\ presults[i][1] = endpoints[i]
            /\ reqs[i].endpoint = endpoints[i]
            /\ DOMAIN reqs[i].params = (IF endpoints[i] = "status/" THEN {} ELSE {"limit"})
            /\ endpoints[i] # "status/" => reqs[i].params["limit"] = 1
        /\ pc \in {"probe_loop", "done"}
        /\ pc = "probe_loop" => Len(presults) < Len(endpoints)
        /\ pc = "done" =>
            (ret.kind = "probe" /\ ret.list = presults /\ Len(presults) = Len(endpoints))

C7_Witness ==
    /\ op = "probe" /\ pc = "done"
    /\ Len(endpoints) >= 2
    /\ ~presults[1][2]
    /\ presults[2][2]
    /\ endpoints[1] # "status/"
    /\ endpoints[2] = "status/"

\* C8: probe never raises and turns each outcome into a tuple: a 2xx response
\* into (endpoint, true, '<code> OK'), another status into (endpoint, false,
\* detail with the code), a connection failure into 'Connection refused', a
\* timeout into 'Timeout', any other exception into its message.
C8_ProbeOutcomesAreData ==
    op = "probe" =>
        /\ pc # "raised"
        /\ Len(outs) = Len(presults)
        /\ \A i \in 1..Len(presults) :
            LET o == outs[i]
                e == presults[i]
            IN  /\ (o.kind = "response" /\ Is2xx(o.status)) =>
                        (e[2] /\ e[3].code = o.status /\ e[3].text = "OK")
                /\ (o.kind = "response" /\ ~Is2xx(o.status)) =>
                        (~e[2] /\ e[3].code = o.status)
                /\ o.kind = "ConnectError" => (~e[2] /\ e[3].text = "Connection refused")
                /\ o.kind = "TimeoutException" => (~e[2] /\ e[3].text = "Timeout")
                /\ o.kind = "Exception" => (~e[2] /\ e[3].text = o.msg)

C8_Witness ==
    /\ op = "probe" /\ pc = "done"
    /\ Len(presults) = 5
    /\ outs[1].kind = "response" /\ outs[1].status = 200
    /\ outs[2].kind = "response" /\ outs[2].status = 403
    /\ outs[3].kind = "ConnectError"
    /\ outs[4].kind = "TimeoutException"
    /\ outs[5].kind = "Exception"

(* ------------------------------------------------------------------ *)
(* Properties of the batch query                                        *)
(* ------------------------------------------------------------------ *)
BatchDone == op = "batch" /\ pc = "done"

KeyAt(i) == prefix_list[i]

\* the records returned for key i whose prefix equals the key, in returned order
DirectOf(i) ==
    LET IsDirect(r) == r.prefix = KeyAt(i)
    IN  SelectSeq(fetched[i], IsDirect)

\* the positions of the keys that got records, and of those that got none
RECURSIVE FoundIdxFrom(_)
FoundIdxFrom(i) ==
    IF i > Len(fetched) THEN <<>>
    ELSE (IF fetched[i] # <<>> THEN <<i>> ELSE <<>>) \o FoundIdxFrom(i + 1)

RECURSIVE MissingIdxFrom(_)
MissingIdxFrom(i) ==
    IF i > Len(fetched) THEN <<>>
    ELSE (IF fetched[i] = <<>> THEN <<i>> ELSE <<>>) \o MissingIdxFrom(i + 1)

RenderOrder == FoundIdxFrom(1) \o MissingIdxFrom(1)

\* how many outcomes key i gets
BlockLen(i) ==
    IF mode = "status_only" /\ Len(DirectOf(i)) > 1 THEN Len(DirectOf(i)) ELSE 1

\* where the outcomes of the j-th rendered key start
RECURSIVE BlockStart(_)
BlockStart(j) == IF j <= 1 THEN 1 ELSE BlockStart(j - 1) + BlockLen(RenderOrder[j - 1])

RECURSIVE ExpectedKeysFrom(_)
ExpectedKeysFrom(j) ==
    IF j > Len(RenderOrder) THEN <<>>
    ELSE [t \in 1..BlockLen(RenderOrder[j]) |-> KeyAt(RenderOrder[j])] \o ExpectedKeysFrom(j + 1)

OutputKeys == [a \in 1..Len(output) |-> output[a].key]

\* the first outcome rendered for key k, 0 when there is none
FirstRow(k) ==
    IF \E a \in 1..Len(output) : output[a].key = k
    THEN CHOOSE a \in 1..Len(output) :
            output[a].key = k /\ \A b \in 1..(a - 1) : output[b].key # k
    ELSE 0

FirstOccurrence(i) == \A t \in 1..(i - 1) : KeyAt(t) # KeyAt(i)

\* C9 as stated: every key has an outcome and the outcomes come in the order of
\* the keys in the input list, matches and NotFound alike.
C9_Original ==
    BatchDone =>
        /\ \A i \in 1..Len(prefix_list) : FirstRow(KeyAt(i)) > 0
        /\ \A i, j \in 1..Len(prefix_list) :
            (i < j /\ FirstOccurrence(i) /\ FirstOccurrence(j)) =>
                FirstRow(KeyAt(i)) < FirstRow(KeyAt(j))

\* C9 amended: the keys whose fetch returned records are rendered first, in
\* input order, then the keys whose fetch returned nothing, in input order;
\* each key gets one outcome, except that the status-only table gives a key one
\* row per record equal to it.
C9_FoundThenMissingInInputOrder ==
    BatchDone =>
        /\ Len(fetched) = Len(prefix_list)
        /\ OutputKeys = ExpectedKeysFrom(1)
        /\ \A a \in 1..Len(output) :
            (output[a].kind = "notfound") <=> (a > Len(output) - Len(MissingIdxFrom(1)))

C9_Witness ==
    /\ BatchDone
    /\ Len(prefix_list) = 2
    /\ KeyAt(1) # KeyAt(2)
    /\ fetched[1] = <<>>
    /\ fetched[2] # <<>>
    /\ output[1].key = KeyAt(2)
    /\ output[2].key = KeyAt(1)

MissingKeys == [j \in 1..Len(MissingIdxFrom(1)) |-> KeyAt(MissingIdxFrom(1)[j])]

NotFoundRowKeys ==
    LET IsNotFound(row) == row.kind = "notfound"
        rows == SelectSeq(output, IsNotFound)
    IN  [a \in 1..Len(rows) |-> rows[a].key]

BatchFetchFailed == op = "batch" /\ pc = "raised" /\ Len(fetched) = bi

\* C12: the keys listed as not found are exactly the keys whose fetch returned
\* an empty list; such a key does not stop the batch, which fetches every key
\* and exits with status 0; a fetch that fails ends the command with an error
\* status, and its key is neither listed as not found nor rendered.
C12_NotFoundIffEmptySuccessfulFetch ==
    op = "batch" =>
        /\ not_found = MissingKeys
        /\ pc \in {"get_loop", "batch_ret"} => exit_code = None
        /\ BatchDone =>
            /\ exit_code = Some(0)
            /\ Len(fetched) = Len(prefix_list)
            /\ NotFoundRowKeys = MissingKeys
        /\ BatchFetchFailed =>
            /\ exit_code = Some(1)
            /\ ret.kind = "error"
            /\ Len(not_found) + Len(batch_results) = bi
            /\ output = <<>>

C12_Witness ==
    /\ BatchDone
    /\ mode = "json"
    /\ Len(prefix_list) = 2
    /\ fetched[1] = <<>>
    /\ fetched[2] # <<>>
    /\ not_found = <<KeyAt(1)>>
    /\ exit_code = Some(0)

\* a fetch failed after an earlier key had come back empty
C12_WitnessFailure ==
    /\ BatchFetchFailed
    /\ bi = 1
    /\ not_found = <<KeyAt(1)>>
    /\ ret.err = "ConnectError"

\* the command is over: rendered, ended by an exception, or left by typer.Exit
CommandEnded == pc \in {"done", "raised", "exited"}

\* the errors of a fetch and of the decoding of what it returned
FetchErrors ==
    {"ConnectError", "TimeoutException", "Exception", "HTTPStatusError", "JSONDecodeError",
     "ValidationError"}

\* C13 as stated: for every filter mapping of the batch file, the fetches of a
\* batch are those of its keys in input order, on the prefixes endpoint,
\* without cap, with the filters plus q = key; a fetch starts only when the
\* one before has returned; and a run that no failed fetch cuts short issues
\* one fetch for each of its N keys.
C13_OneFetchPerKeyInOrder ==
    (op = "batch" /\ prefix_list # <<>> /\ settings = "ok") =>
        /\ Len(fetches) <= Len(prefix_list)
        /\ \A i \in 1..Len(fetches) :
            fetches[i] = [endpoint |-> "ipam/prefixes/",
                          params |-> Some(DictSet(global_filters, "q", KeyAt(i))),
                          max_results |-> None]
        /\ Len(fetches) <= Len(fetched) + 1
        /\ pc \in {"get_loop", "batch_ret"} => Len(fetches) = bi + 1
        /\ (CommandEnded /\ Len(fetches) < Len(prefix_list)) =>
                (ret.kind = "error" /\ ret.err \in FetchErrors)

(* ------------------------------------------------------------------ *)
(* Properties of the commands                                           *)
(* ------------------------------------------------------------------ *)
InCommand == op \in {"list", "batch"}

C19_WitnessList ==
    /\ op = "list"
    /\ settings = "missing"
    /\ pc = "exited"
    /\ exit_code = Some(2)
    /\ fetches[1].endpoint = "ipam/vlans/"

(* ------------------------------------------------------------------ *)
(* print_batch_summary on its own (formatters.py)                       *)
(* ------------------------------------------------------------------ *)
KNoSlash == <<"1", "0">>
KWord == <<"1", "0", "/", "x">>

\* the prefixes a returned record can carry, well formed or not
CandPrefixes == {K16, K8, K24, KNoSlash, KWord}

\* validated record lists of one to n records; the record at position i has id i
Candidates(n) ==
    UNION { { [i \in 1..k |-> ModelValidate(RawRec(i, f[i]))] : f \in [1..k -> CandPrefixes] } :
            k \in 1..n }

\* the arguments of print_batch_summary: one key with its records, and the
\* keys without records
SummaryInit ==
    /\ cfg_page_size = 1
    /\ op = "summary"
    /\ pc = "idle"
    /\ server = DownServer
    /\ reqs = <<>>
    /\ outs = <<>>
    /\ ret = NoRet
    /\ GetInit
    /\ ProbeInit
    /\ prefix_list = <<>>
    /\ global_filters = EmptyDict
    /\ mode = "status_only"
    /\ bi = 0
    /\ fetched = <<>>
    /\ output = <<>>
    /\ batch_results \in { <<(<<cidr, recs>>)>> : cidr \in {K16, K24}, recs \in Candidates(MaxCand) }
    /\ not_found \in { <<>>, <<K8>> }
    /\ settings = "ok"
    /\ CmdInit
    /\ SeqInit
    /\ PureInit
    /\ SetupInit

PrintSummary ==
    /\ op = "summary"
    /\ pc = "idle"
    /\ output' = PrintBatchSummary(batch_results, not_found)
    /\ pc' = "done"
    /\ UNCHANGED <<cfg_page_size, op, server, getVars, reqs, outs, ret, probeVars,
                   prefix_list, global_filters, mode, bi, batch_results, not_found, fetched,
                   cmdVars, otherVars>>

SummaryNext == PrintSummary

SpecSummary == SummaryInit /\ [][SummaryNext]_vars

SummaryDone == op = "summary" /\ pc = "done"

\* C11: a key whose returned records all differ from it gets exactly one row,
\* an ApproximateMatch on the record whose mask length as parsed by _prefix_len
\* is largest, the first such record in returned order.
C11_ApproximateMatchIsFirstLargest ==
    SummaryDone =>
        LET cidr == batch_results[1][1]
            recs == batch_results[1][2]
            rows == SubSeq(output, 1, Len(output) - Len(not_found))
        IN  (\A j \in 1..Len(recs) : recs[j].prefix # cidr) =>
                /\ Len(rows) = 1
                /\ rows[1].key = cidr
                /\ rows[1].kind = "approx"
                /\ \E k \in 1..Len(recs) :
                    /\ rows[1].recs = <<recs[k]>>
                    /\ \A j \in 1..Len(recs) :
                        PrefixLen(recs[j].prefix) <= PrefixLen(recs[k].prefix)
                    /\ \A j \in 1..(k - 1) :
                        PrefixLen(recs[j].prefix) < PrefixLen(recs[k].prefix)

C11_Witness ==
    /\ SummaryDone
    /\ batch_results[1][1] = K24
    /\ Len(batch_results[1][2]) = 3
    /\ batch_results[1][2][1].prefix = KWord
    /\ batch_results[1][2][2].prefix = K16
    /\ batch_results[1][2][3].prefix = K16
    /\ output[1].kind = "approx"
    /\ output[1].recs[1].id = 2

(* ------------------------------------------------------------------ *)
(* _prefix_len on its own (formatters.py)                               *)
(* ------------------------------------------------------------------ *)
Chars == {"1", "2", "/", "x", "-", " "}

PrefixLenInit ==
    /\ cfg_page_size = 1
    /\ op = "prefix_len"
    /\ pc = "idle"
    /\ server = DownServer
    /\ reqs = <<>>
    /\ outs = <<>>
    /\ ret = NoRet
    /\ GetInit
    /\ ProbeInit
    /\ BatchInit
    /\ settings = "ok"
    /\ CmdInit
    /\ SeqInit
    /\ SetupInit
    /\ arg \in SeqsUpTo(Chars, MaxStr)
    /\ val = <<>>

ApplyPrefixLen ==
    /\ op = "prefix_len"
    /\ pc = "idle"
    /\ val' = PrefixLenCall(arg)
    /\ pc' = IF PrefixLenCall(arg).raised THEN "raised" ELSE "done"
    /\ UNCHANGED <<cfg_page_size, op, server, getVars, reqs, outs, ret, probeVars, batchVars,
                   cmdVars, seqVars, arg, setupVars, lifeVars>>

PrefixLenNext == ApplyPrefixLen

SpecPrefixLen == PrefixLenInit /\ [][PrefixLenNext]_vars

HasSlash(s) == \E i \in 1..Len(s) : s[i] = "/"

\* what stands between the first slash and the next one, or the end
AfterSlash(s) ==
    LET i == CHOOSE k \in 1..Len(s) : s[k] = "/" /\ \A j \in 1..(k - 1) : s[j] # "/"
        rest == SubSeq(s, i + 1, Len(s))
        IsEnd(k) == k = Len(rest) + 1 \/ rest[k] = "/"
        n == CHOOSE k \in 1..(Len(rest) + 1) : IsEnd(k) /\ \A j \in 1..(k - 1) : ~IsEnd(j)
    IN  SubSeq(rest, 1, n - 1)

AllDigits(s) == s # <<>> /\ \A i \in 1..Len(s) : s[i] \in Digits

\* the number a digit string writes, read from its last digit
RECURSIVE Decimal(_)
Decimal(s) ==
    IF s = <<>> THEN 0
    ELSE 10 * Decimal(SubSeq(s, 1, Len(s) - 1)) + DigitVal(s[Len(s)])

\* C14: _prefix_len never raises; it returns the integer written after the
\* slash, and 0 for a string without slash and for one whose mask part is
\* empty or holds something that is no part of a number.
C14_PrefixLenParsesMaskOrZero ==
    (op = "prefix_len" /\ pc # "idle") =>
        /\ pc = "done"
        /\ ~val.raised
        /\ ~HasSlash(arg) => val.v = 0
        /\ HasSlash(arg) =>
            LET mask == AfterSlash(arg)
            IN  /\ AllDigits(mask) => val.v = Decimal(mask)
                /\ (mask # <<>> /\ Head(mask) = "-" /\ AllDigits(Tail(mask))) =>
                        val.v = 0 - Decimal(Tail(mask))
                /\ (mask = <<>> \/ \E i \in 1..Len(mask) : mask[i] = "x") => val.v = 0

C14_Witness ==
    /\ op = "prefix_len" /\ pc = "done"
    /\ arg = <<"1", "/", "2", "1">>
    /\ val = [raised |-> FALSE, v |-> 21]

\* a mask that is not a number gives 0
C14_WitnessZero ==
    /\ op = "prefix_len" /\ pc = "done"
    /\ arg = <<"1", "/", "x">>
    /\ val = [raised |-> FALSE, v |-> 0]

(* ------------------------------------------------------------------ *)
(* The record models and their decoding (models/*.py)                   *)
(* ------------------------------------------------------------------ *)
\* JSON values, tagged with their type
JInt(n) == [t |-> "int", i |-> n]
JStr(x) == [t |-> "str", s |-> x]
JBool(x) == [t |-> "bool", b |-> x]
JNull == [t |-> "null"]
JObj(f) == [t |-> "obj", o |-> f]
JList(items) == [t |-> "list", l |-> items]

JRef == JObj([id |-> JInt(7), display |-> JStr("a")])
JRefExtra == JObj([id |-> JInt(7), display |-> JStr("a"), name |-> JStr("a")])
JChoice == JObj([value |-> JStr("a"), label |-> JStr("a")])
JChoiceExtra == JObj([value |-> JStr("a"), label |-> JStr("a"), color |-> JStr("a")])

JValues ==
    { JInt(7), JStr("a"), JBool(TRUE), JNull, JRef, JRefExtra, JChoice, JChoiceExtra,
      JList(<<>>), JList(<<JRefExtra>>) }

Kinds == {"Prefix", "IPAddress", "VLAN", "VRF"}

\* the declared fields of each model and their types; of the fields that
\* repeat a type within a model one stands for all
FieldTypes(kind) ==
    CASE kind = "Prefix" ->
            [id |-> "int", display |-> "str", prefix |-> "str", status |-> "choice",
             vrf |-> "nested", is_pool |-> "bool", description |-> "str",
             tags |-> "nestedlist"]
      [] kind = "IPAddress" ->
            [id |-> "int", display |-> "str", address |-> "str", status |-> "choice",
             vrf |-> "nested", assigned_object_id |-> "optint", dns_name |-> "str",
             tags |-> "nestedlist"]
      [] kind = "VLAN" ->
            [id |-> "int", display |-> "str", vid |-> "int", name |-> "str",
             status |-> "choice", site |-> "nested", description |-> "str",
             tags |-> "nestedlist"]
      [] OTHER ->
            [id |-> "int", display |-> "str", name |-> "str", rd |-> "optstr",
             tenant |-> "nested", enforce_unique |-> "bool", description |-> "str",
             tags |-> "nestedlist"]

KnownFields(kind) == DOMAIN FieldTypes(kind)

\* the fields declared without a default
Required(kind) ==
    CASE kind = "Prefix" -> {"id", "display", "prefix"}
      [] kind = "IPAddress" -> {"id", "display", "address"}
      [] kind = "VLAN" -> {"id", "display", "vid", "name"}
      [] OTHER -> {"id", "display", "name"}

\* slip: every absent optional field decodes to None
Default_none(kind, f) == JNull

\* the declared defaults
Default(kind, f) ==
    LET type == FieldTypes(kind)[f]
    IN  CASE type = "str" -> JStr("")
          [] type = "bool" -> JBool(f = "enforce_unique")
          [] type = "nestedlist" -> JList(<<>>)
          [] OTHER -> JNull

\* IPAddress, VLAN and VRF take NestedRef and ChoiceRef from models/common.py,
\* which set extra="allow"; models/prefix.py declares its own two classes,
\* without it, and pydantic then ignores the undeclared keys
RefsAllowExtra(kind) == kind # "Prefix"

RefFields(type) == IF type = "choice" THEN {"value", "label"} ELSE {"id", "display"}

\* a value that validates as a NestedRef or a ChoiceRef
RefValid(type, value) ==
    /\ value.t = "obj"
    /\ RefFields(type) \subseteq DOMAIN value.o
    /\ \A k \in RefFields(type) :
        value.o[k].t = (IF k = "id" THEN "int" ELSE "str")

\* the model object of a reference: its declared fields, and the extra ones
\* it keeps
RefModel(type, value, allow) ==
    [t |-> "ref",
     fields |-> [k \in RefFields(type) |-> value.o[k]],
     extra |-> [k \in (IF allow THEN DOMAIN value.o \ RefFields(type) ELSE {}) |-> value.o[k]]]

\* the validation of one declared field that is present
FieldValid(type, value) ==
    CASE type = "int" -> value.t = "int"
      [] type = "str" -> value.t = "str"
      [] type = "bool" -> value.t = "bool"
      [] type = "optint" -> value.t \in {"int", "null"}
      [] type = "optstr" -> value.t \in {"str", "null"}
      [] type \in {"nested", "choice"} -> value.t = "null" \/ RefValid(type, value)
      [] OTHER -> value.t = "list" /\ \A i \in 1..Len(value.l) : RefValid("nested", value.l[i])

FieldValue(type, value, allow) ==
    IF type \in {"nested", "choice"} /\ value.t = "obj" THEN RefModel(type, value, allow)
    ELSE IF type = "nestedlist"
    THEN [t |-> "reflist",
          l |-> [i \in 1..Len(value.l) |-> RefModel("nested", value.l[i], allow)]]
    ELSE value

\* Model.model_validate(payload): the model object, with the undeclared keys
\* of the payload in its extra part, or a ValidationError
Decode(kind, payload) ==
    LET types == FieldTypes(kind)
        known == KnownFields(kind)
        valid == \A f \in known :
                    IF f \in DOMAIN payload THEN FieldValid(types[f], payload[f])
                    ELSE f \notin Required(kind)
    IN  IF ~valid THEN [ok |-> FALSE, fields |-> EmptyDict, extra |-> EmptyDict]
        ELSE [ok |-> TRUE,
              fields |-> [f \in known |->
                            IF f \in DOMAIN payload
                            THEN FieldValue(types[f], payload[f], RefsAllowExtra(kind))
                            ELSE Default(kind, f)],
              extra |-> [k \in DOMAIN payload \ known |-> payload[k]]]

DumpRef(m) == JObj(m.extra @@ m.fields)

DumpValue(v) ==
    IF v.t = "ref" THEN DumpRef(v)
    ELSE IF v.t = "reflist" THEN JList([i \in 1..Len(v.l) |-> DumpRef(v.l[i])])
    ELSE v

\* model.model_dump(mode="json"): the declared fields, then the extra ones
ModelDump(m) ==
    [k \in DOMAIN m.fields \cup DOMAIN m.extra |->
        IF k \in DOMAIN m.fields THEN DumpValue(m.fields[k]) ELSE m.extra[k]]

\* the smallest payload that validates: the required fields
BasePayload(kind) ==
    [f \in Required(kind) |-> IF FieldTypes(kind)[f] = "int" THEN JInt(7) ELSE JStr("a")]

Absent == [t |-> "absent"]

\* a payload with the keys of e set to, or freed of, a value
Edited(base, e) ==
    [k \in (DOMAIN base \ {x \in DOMAIN e : e[x] = Absent})
            \cup {x \in DOMAIN e : e[x] # Absent} |->
        IF k \in DOMAIN e THEN e[k] ELSE base[k]]

\* the payloads that differ from the smallest valid one in at most n keys,
\* declared ones or the undeclared key custom_fields
Payloads(kind, n) ==
    LET keys == KnownFields(kind) \cup {"custom_fields"}
        edits == UNION { [E -> JValues \cup {Absent}] :
                            E \in {S \in SUBSET keys : Cardinality(S) <= n} }
    IN  { Edited(BasePayload(kind), e) : e \in edits }

NoModel == [ok |-> FALSE, fields |-> EmptyDict, extra |-> EmptyDict]

DecodeInit ==
    /\ cfg_page_size = 1
    /\ op = "decode"
    /\ pc = "idle"
    /\ server = DownServer
    /\ reqs = <<>>
    /\ outs = <<>>
    /\ ret = NoRet
    /\ GetInit
    /\ ProbeInit
    /\ BatchInit
    /\ settings = "ok"
    /\ CmdInit
    /\ SeqInit
    /\ SetupInit
    /\ \E kind \in Kinds : \E payload \in Payloads(kind, MaxEdits) :
            arg = [kind |-> kind, payload |-> payload]
    /\ val = [model |-> NoModel, out |-> EmptyDict]

\* Model.model_validate(payload)
DecodeStep ==
    /\ op = "decode"
    /\ pc = "idle"
    /\ val' = [model |-> Decode(arg.kind, arg.payload), out |-> EmptyDict]
    /\ pc' = IF Decode(arg.kind, arg.payload).ok THEN "decoded" ELSE "raised"
    /\ UNCHANGED <<cfg_page_size, op, server, getVars, reqs, outs, ret, probeVars, batchVars,
                   cmdVars, seqVars, arg, setupVars, lifeVars>>

\* model.model_dump(mode="json")
DumpStep ==
    /\ op = "decode"
    /\ pc = "decoded"
    /\ val' = [val EXCEPT !.out = ModelDump(val.model)]
    /\ pc' = "done"
    /\ UNCHANGED <<cfg_page_size, op, server, getVars, reqs, outs, ret, probeVars, batchVars,
                   cmdVars, seqVars, arg, setupVars, lifeVars>>

DecodeNext == DecodeStep \/ DumpStep

SpecDecode == DecodeInit /\ [][DecodeNext]_vars

\* the undeclared keys of an object of the payload are in the re-encoded one,
\* with the same values
KeepsKeys(type, given, dumped) ==
    /\ dumped.t = "obj"
    /\ \A k \in DOMAIN given.o \ RefFields(type) :
            k \in DOMAIN dumped.o /\ dumped.o[k] = given.o[k]

\* C15 as stated: decoding a payload and serializing the record again keeps
\* every undeclared key with its value, at the top level and inside the nested
\* reference objects, for each of the four record kinds.
C15_RoundTripKeepsUnknownFields ==
    (op = "decode" /\ pc = "done") =>
        LET payload == arg.payload
            types == FieldTypes(arg.kind)
        IN  /\ \A k \in DOMAIN payload \ KnownFields(arg.kind) :
                    k \in DOMAIN val.out /\ val.out[k] = payload[k]
            /\ \A f \in KnownFields(arg.kind) \cap DOMAIN payload :
                /\ payload[f].t = "obj" => KeepsKeys(types[f], payload[f], val.out[f])
                /\ payload[f].t = "list" =>
                    /\ val.out[f].t = "list"
                    /\ Len(val.out[f].l) = Len(payload[f].l)
                    /\ \A i \in 1..Len(payload[f].l) :
                            KeepsKeys("nested", payload[f].l[i], val.out[f].l[i])

DecodeRaised == op = "decode" /\ pc = "raised"
Decoded == op = "decode" /\ pc \in {"decoded", "done"}

\* the field holds a value of the primitive type it is declared with
PrimitiveOk(kind, f, payload) ==
    f \in DOMAIN payload /\ payload[f].t = FieldTypes(kind)[f]

C16_WitnessOptional ==
    /\ DecodeRaised
    /\ arg.kind = "Prefix"
    /\ \A f \in Required("Prefix") : PrimitiveOk("Prefix", f, arg.payload)
    /\ "description" \in DOMAIN arg.payload
    /\ arg.payload["description"] = JNull

(* ------------------------------------------------------------------ *)
(* Two calls in a row on one client, and the fetches of one batch       *)
(* ------------------------------------------------------------------ *)
SessionInit ==
    /\ cfg_page_size \in PageSizes
    /\ op = "idle"
    /\ pc = "idle"
    /\ server = DownServer
    /\ reqs = <<>>
    /\ outs = <<>>
    /\ ret = NoRet
    /\ GetInit
    /\ ProbeInit
    /\ BatchInit
    /\ settings = "ok"
    /\ CmdInit
    /\ SeqInit
    /\ PureInit
    /\ SetupInit

\* datasets that stay as they are between two calls: the first n records of
\* RecList; or a server that is down
SessionServers ==
    { [mode |-> "honest", data |-> Take(RecList, n)] : n \in 0..MaxN } \cup {DownServer}

\* the first call on the client is a get
FirstGet ==
    /\ pc = "idle"
    /\ \E ps \in ParamChoices, mr \in Caps, srv \in SessionServers :
          GetEnter("ipam/prefixes/", ps, mr, srv)
    /\ op' = "get"
    /\ UNCHANGED <<cfg_page_size, probeVars, batchVars, cmdVars, otherVars>>

\* the first call on the client is a probe of at most one endpoint
FirstProbe ==
    /\ pc = "idle"
    /\ \E eps \in {Some(l) : l \in SeqsUpTo(Endpoints, 1)} : ProbeEnter(eps)
    /\ op' = "probe"
    /\ server' = StatusServer
    /\ UNCHANGED <<cfg_page_size, reqs, outs, getVars, batchVars, cmdVars, otherVars>>

\* what is remembered of a call when the next one starts
Snapshot ==
    [op |-> op, endpoint |-> endpoint, params |-> params, max_results |-> max_results,
     server |-> server, reqs |-> reqs, ret |-> ret]

\* a get on the same client once the first call is over, whatever it was and
\* however it ended
SecondGet ==
    /\ op \in {"get", "get_single", "probe"}
    /\ pc \in {"done", "raised"}
    /\ prev = NoPrev
    /\ prev' = Snapshot
    /\ \E ps \in ParamChoices, mr \in Caps, srv \in SessionServers :
          GetEnter("ipam/prefixes/", ps, mr, srv)
    /\ op' = "get"
    /\ UNCHANGED <<cfg_page_size, probeVars, batchVars, cmdVars, pureVars, setupVars, lifeVars>>

\* a batch in json mode without filters
SessionBatch ==
    /\ pc = "idle"
    /\ \E pl \in SeqsUpTo(Keys, MaxKeys) \ {<<>>}, srv \in BatchServers :
          BatchEnter(BatchFile(pl, EmptyDict), "json", srv)
    /\ op' = "batch"
    /\ bi' = 0
    /\ batch_results' = <<>>
    /\ not_found' = <<>>
    /\ output' = <<>>
    /\ fetched' = <<>>
    /\ UNCHANGED <<cfg_page_size, probeVars, settings, seqVars, pureVars, setupVars>>

SessionNext ==
    \/ FirstGet
    \/ GetSingle
    \/ FirstProbe
    \/ GetStep
    \/ ProbeStep
    \/ SecondGet
    \/ SessionBatch
    \/ BatchAfterFetch

SpecSession == SessionInit /\ [][SessionNext]_vars

\* the running get follows another call on its client
FollowsCall == op = "get" /\ prev # NoPrev

\* C17: a get that repeats the endpoint, filters and cap of the get before it,
\* against the same unchanged dataset, issues the same requests in the same
\* order and returns the same list.
C17_RepeatedGetIsIdentical ==
    (FollowsCall /\ prev.op = "get" /\ server.mode = "honest" /\ prev.server = server
        /\ prev.endpoint = endpoint /\ prev.params = params
        /\ prev.max_results = max_results) =>
        /\ pc # "raised"
        /\ Len(reqs) <= Len(prev.reqs)
        /\ reqs = SubSeq(prev.reqs, 1, Len(reqs))
        /\ pc = "done" => (reqs = prev.reqs /\ ret = prev.ret)

C17_Witness ==
    /\ FollowsCall /\ prev.op = "get" /\ pc = "done"
    /\ server.mode = "honest" /\ prev.server = server
    /\ prev.endpoint = endpoint /\ prev.params = params /\ prev.max_results = max_results
    /\ Len(reqs) >= 2
    /\ Len(ret.list) >= 2
    /\ ret = prev.ret

\* what a get returns from a server that honours limit and offset
ExpectedList(data, mr) == IF mr.some THEN Take(data, mr.v) ELSE data

\* the get in progress has a call, or a key of its batch, before it
HasHistory == (op = "get" /\ prev # NoPrev) \/ (op = "batch" /\ bi >= 1)

\* C18: every get starts with an empty accumulator and offset 0, whatever ran
\* before it: after an earlier get, get_single or probe on its client, and
\* after earlier keys of its batch, its requests and its result are those its
\* own arguments and dataset determine.
C18_GetStartsFresh ==
    /\ (GetRunning /\ reqs = <<>>) =>
        /\ results = <<>>
        /\ query = DictMerge(ParamsOrEmpty(params), [limit |-> page_size, offset |-> 0])
    /\ (HasHistory /\ op \in {"get", "batch"} /\ server.mode = "honest") =>
        /\ \A k \in 1..Len(reqs) :
            reqs[k] = HttpGet(endpoint,
                              DictMerge(ParamsOrEmpty(params),
                                        [limit |-> page_size, offset |-> (k - 1) * page_size]))
        /\ GetReturned => ret = RetList(ExpectedList(server.data, max_results))

\* a get that returns two pages after a probe that issued a request
C18_Witness ==
    /\ FollowsCall /\ prev.op = "probe" /\ pc = "done"
    /\ Len(prev.reqs) = 1
    /\ server.mode = "honest"
    /\ Len(reqs) >= 2
    /\ Len(ret.list) >= 2

\* a get that returns records after a get that had returned records
C18_WitnessAfterGet ==
    /\ FollowsCall /\ prev.op = "get" /\ pc = "done"
    /\ Len(prev.reqs) >= 2
    /\ prev.ret.list # <<>>
    /\ ret.list # <<>>
    /\ ret.list # prev.ret.list

\* the fetch of a second key has returned after the first key got records
C18_WitnessBatch ==
    /\ op = "batch" /\ pc = "batch_ret"
    /\ bi = 1
    /\ fetched[1] # <<>>
    /\ ret.list # <<>>
    /\ ret.list # fetched[1]

(* ------------------------------------------------------------------ *)
(* The setup command (cli.py)                                           *)
(* ------------------------------------------------------------------ *)
\* texts are sequences of characters; a name or a sentence that the code only
\* copies or compares as a whole counts as one character
SchemeS == <<"h", "t", "t", "p", "s", ":", "/", "/">>
SchemeP == <<"h", "t", "t", "p", ":", "/", "/">>
Host == <<"n", "b">>
OldHost == <<"o", "l", "d">>
OldToken == <<"o", "t">>
NewToken == <<"t", "k">>

StartsWith(text, p) == Len(text) >= Len(p) /\ SubSeq(text, 1, Len(p)) = p

\* str.rstrip(c)
RECURSIVE RStrip(_, _)
RStrip(text, c) ==
    IF text # <<>> /\ text[Len(text)] = c THEN RStrip(SubSeq(text, 1, Len(text) - 1), c)
    ELSE text

\* str.partition("="): what stands before the first '=' and what stands after
Before(line) ==
    LET k == CHOOSE i \in 1..Len(line) : line[i] = "=" /\ \A j \in 1..(i - 1) : line[j] # "="
    IN  SubSeq(line, 1, k - 1)
After(line) ==
    LET k == CHOOSE i \in 1..Len(line) : line[i] = "=" /\ \A j \in 1..(i - 1) : line[j] # "="
    IN  SubSeq(line, k + 1, Len(line))

\* _parse_existing_env: the assignments of the lines that are neither blank
\* nor comments, a later one overriding an earlier one
RECURSIVE ParseExistingEnv(_, _)
ParseExistingEnv(lines, values) ==
    IF lines = <<>> THEN values
    ELSE LET line == Strip(Head(lines))
         IN  IF line = <<>> \/ Head(line) = "#" THEN ParseExistingEnv(Tail(lines), values)
             ELSE IF \E i \in 1..Len(line) : line[i] = "="
             THEN ParseExistingEnv(Tail(lines),
                                   DictSet(values, Strip(Before(line)), Strip(After(line))))
             ELSE ParseExistingEnv(Tail(lines), values)

\* existing.get(key, "")
EnvGet(values, key) == IF <<key>> \in DOMAIN values THEN values[<<key>>] ELSE <<>>

EnvLine(key, value) == <<key, "=">> \o value
Comment(text) == <<"#", " ", text>>

\* _write_env_file: the lines of the generated file
WriteEnvFile(u, t) ==
    << Comment("NetBox connection settings"),
       Comment("Generated by: nbpull setup"),
       <<"#">>,
       Comment("These values are READ from NetBox"),
       <<>>,
       EnvLine("NETBOX_URL", u),
       EnvLine("NETBOX_TOKEN", t),
       <<>>,
       Comment("Optional: Results per API page (default: 100)"),
       <<"#", " ", "NETBOX_PAGE_SIZE", "=", "1", "0", "0">>,
       <<>>,
       Comment("Optional: Request timeout in seconds (default: 30)"),
       <<"#", " ", "NETBOX_TIMEOUT", "=", "3", "0">>,
       <<>>,
       Comment("Optional: Verify SSL certificates (default: true)"),
       <<"#", " ", "NETBOX_VERIFY_SSL", "=", "true">> >>

\* the .env files setup can find: hand-written ones, with and without a
\* further setting or the URL, and one that an earlier setup generated
EnvFiles ==
    { << EnvLine("NETBOX_URL", SchemeS \o OldHost), EnvLine("NETBOX_TOKEN", OldToken) >>,
      << EnvLine("NETBOX_URL", SchemeS \o OldHost), EnvLine("NETBOX_TOKEN", OldToken),
         EnvLine("NETBOX_VERIFY_SSL", <<"false">>) >>,
      << Comment("my token"), EnvLine("NETBOX_TOKEN", OldToken) >>,
      WriteEnvFile(SchemeS \o OldHost, OldToken) }

\* Prompt.ask: the default for an empty answer, else the answer stripped
PromptAsk(typed, default) == IF typed = <<>> THEN default ELSE Strip(typed)

\* 'Normalise: strip trailing slashes, ensure scheme'
NormaliseUrl(text) ==
    LET u == RStrip(Strip(text), "/")
    IN  IF StartsWith(u, SchemeP) \/ StartsWith(u, SchemeS) THEN u ELSE SchemeS \o u

\* NetBoxSettings(url=url, token=token) validates url as an HttpUrl: a scheme
\* and a host without blanks
UrlValid(u) ==
    \E scheme \in {SchemeS, SchemeP} :
        /\ StartsWith(u, scheme)
        /\ Len(u) > Len(scheme)
        /\ \A i \in (Len(scheme) + 1)..Len(u) : u[i] # " "

UrlAnswers ==
    { <<>>, Host, SchemeS \o Host \o <<"/">>, SchemeP \o Host, Host \o <<" ">> \o Host }
TokenAnswers == { <<>>, NewToken }

\* _write_batch_toml: the lines of the generated file
RECURSIVE PrefixItems(_)
PrefixItems(typed) ==
    IF typed = <<>> THEN <<>>
    ELSE <<[kind |-> "item", key |-> "", text |-> Head(typed)]>> \o PrefixItems(Tail(typed))

TomlLine(kind, key, text) == [kind |-> kind, key |-> key, text |-> text]

FilterLines(filters) ==
    IF DOMAIN filters # {}
    THEN (IF "status" \in DOMAIN filters
             THEN <<TomlLine("filter", "status", filters["status"])>> ELSE <<>>)
         \o (IF "vrf" \in DOMAIN filters
             THEN <<TomlLine("filter", "vrf", filters["vrf"])>> ELSE <<>>)
         \o (IF "tenant" \in DOMAIN filters
             THEN <<TomlLine("filter", "tenant", filters["tenant"])>> ELSE <<>>)
    ELSE << TomlLine("comment", "status", <<"active">>),
            TomlLine("comment", "vrf", <<"Production">>),
            TomlLine("comment", "tenant", <<"Ops">>) >>

WriteBatchToml(typed, filters) ==
    <<TomlLine("open", "prefixes", <<>>)>> \o PrefixItems(typed)
        \o << TomlLine("close", "", <<>>), TomlLine("blank", "", <<>>),
              TomlLine("table", "filters", <<>>) >>
        \o FilterLines(filters)
        \o <<TomlLine("blank", "", <<>>)>>

\* a batch file that was there before setup ran
OldBatchFile == WriteBatchToml(<<K8>>, EmptyDict)

\* what the user types at the prefix prompts before the empty line
TypedPrefixes == SeqsUpTo({K16, KWord}, MaxTyped)

\* the answers to the three filter prompts, blank ones dropped
FilterAnswers == { EmptyDict, [status |-> <<"active">>], [vrf |-> <<"Prod">>, tenant |-> <<"Ops">>] }

\* setup runs on its own: the files it finds, no call made yet
SetupSpecInit ==
    /\ cfg_page_size \in PageSizes
    /\ op = "idle"
    /\ pc = "idle"
    /\ server = DownServer
    /\ reqs = <<>>
    /\ outs = <<>>
    /\ ret = NoRet
    /\ GetInit
    /\ ProbeInit
    /\ BatchInit
    /\ settings \in {"ok", "missing"}
    /\ CmdInit
    /\ SeqInit
    /\ PureInit
    /\ env_file \in {None} \cup {Some(f) : f \in EnvFiles}
    /\ batch_file \in {None, Some(OldBatchFile)}
    /\ env_at_start = None
    /\ overwrite = None
    /\ url = <<>>
    /\ token = <<>>
    /\ existing_url = <<>>
    /\ existing_token = <<>>
    /\ batch_at_start = None
    /\ asked = <<>>

\* Step 1: read an existing .env and ask whether to overwrite it
SetupStart ==
    /\ pc = "idle"
    /\ op' = "setup"
    /\ pc' = "setup_collect"
    /\ env_at_start' = env_file
    /\ batch_at_start' = batch_file
    /\ asked' = IF env_file.some THEN <<"overwrite">> ELSE <<>>
    /\ IF env_file.some
       THEN LET existing == ParseExistingEnv(env_file.v, EmptyDict)
            IN  /\ existing_url' = EnvGet(existing, "NETBOX_URL")
                /\ existing_token' = EnvGet(existing, "NETBOX_TOKEN")
                /\ \E answer \in BOOLEAN :
                    /\ overwrite' = Some(answer)
                    /\ url' = IF answer THEN <<>> ELSE existing_url'
                    /\ token' = IF answer THEN <<>> ELSE existing_token'
       ELSE /\ existing_url' = <<>>
            /\ existing_token' = <<>>
            /\ overwrite' = None
            /\ url' = <<>>
            /\ token' = <<>>
    /\ UNCHANGED <<cfg_page_size, server, reqs, outs, ret, getVars, probeVars, batchVars,
                   cmdVars, seqVars, pureVars, lifeVars, env_file, batch_file>>

\* Step 2 and the start of step 3: prompt for what is missing, stop without
\* both values, write .env, build the settings and begin the probe
SetupCollect ==
    /\ pc = "setup_collect"
    /\ \E typedUrl \in UrlAnswers, typedToken \in TokenAnswers :
        LET u == IF url = <<>> THEN NormaliseUrl(PromptAsk(typedUrl, existing_url)) ELSE url
            t == IF token = <<>> THEN Strip(PromptAsk(typedToken, <<>>)) ELSE token
        IN  /\ url' = u
            /\ token' = t
            /\ asked' = asked \o (IF url = <<>> THEN <<"url">> ELSE <<>>)
                             \o (IF token = <<>> THEN <<"token">> ELSE <<>>)
            /\ IF u = <<>> \/ t = <<>>
               THEN /\ pc' = "exited"
                    /\ exit_code' = Some(2)
                    /\ UNCHANGED <<env_file, server, ret, probeVars>>
               ELSE /\ env_file' = Some(WriteEnvFile(u, t))
                    /\ IF UrlValid(u)
                       THEN /\ ProbeEnter(None)
                            /\ server' = UpDownServer
                            /\ UNCHANGED exit_code
                       ELSE /\ pc' = "exited"
                            /\ exit_code' = Some(2)
                            /\ UNCHANGED <<server, ret, probeVars>>
    /\ UNCHANGED <<cfg_page_size, op, reqs, outs, getVars, batchVars, settings, fetches,
                   seqVars, pureVars, lifeVars, batch_file, env_at_start, overwrite,
                   existing_url,
                   existing_token, batch_at_start>>

\* slip: the file is taken to be absent
BatchPathExists_never(f) == FALSE

\* _BATCH_PATH.exists()
BatchPathExists(f) == f.some

\* the questions of step 4 for one run of answers: create?, one prefix prompt
\* per prefix and one for the empty line, filters?, and the three filters
RECURSIVE PrefixPrompts(_)
PrefixPrompts(n) == IF n = 0 THEN <<>> ELSE <<"prefix">> \o PrefixPrompts(n - 1)

BatchQuestions(create, typed, add_filters) ==
    <<"create">>
        \o (IF create THEN PrefixPrompts(Len(typed) + 1) ELSE <<>>)
        \o (IF create /\ typed # <<>> THEN <<"filters">> ELSE <<>>)
        \o (IF create /\ typed # <<>> /\ add_filters
            THEN <<"status", "vrf", "tenant">> ELSE <<>>)

\* Step 4: the batch file, written only when there is none and the user
\* asked for one and typed a prefix; then 'Setup complete'
SetupBatch ==
    /\ pc = "setup_batch"
    /\ IF BatchPathExists(batch_file)
       THEN UNCHANGED <<batch_file, asked>>
       ELSE \E create \in BOOLEAN, typed \in TypedPrefixes, add_filters \in BOOLEAN,
               answers \in FilterAnswers :
                LET batch_filters == IF add_filters THEN answers ELSE EmptyDict
                IN  /\ batch_file' = IF create /\ typed # <<>>
                                     THEN Some(WriteBatchToml(typed, batch_filters))
                                     ELSE batch_file
                    /\ asked' = asked \o BatchQuestions(create, typed, add_filters)
    /\ pc' = "done"
    /\ exit_code' = Some(0)
    /\ UNCHANGED <<cfg_page_size, op, server, reqs, outs, ret, getVars, probeVars, batchVars,
                   settings, fetches, seqVars, pureVars, lifeVars, env_file, env_at_start,
                   overwrite,
                   url, token, existing_url, existing_token, batch_at_start>>

SetupNext == SetupStart \/ SetupCollect \/ ProbeStep \/ SetupBatch

SpecSetup == SetupSpecInit /\ [][SetupNext]_vars

(* ------------------------------------------------------------------ *)
(* Properties of setup                                                  *)
(* ------------------------------------------------------------------ *)
SetupEnded == op = "setup" /\ pc \in {"done", "exited"}

Declined == env_at_start.some /\ overwrite = Some(FALSE)

\* C20: when .env existed and the user declined to overwrite it, the content
\* of .env after setup is the content it had before.
C20_DeclinedOverwriteKeepsEnv ==
    (SetupEnded /\ Declined) => env_file = env_at_start

\* the questions of step 4 that only a run creating the batch file asks
BatchOnlyQuestions == {"create", "prefix", "filters", "status", "vrf", "tenant"}

AskedAny(qs) == \E i \in 1..Len(asked) : asked[i] \in qs

\* C21: when batch_prefixes.toml exists when setup starts, setup never
\* writes it, whatever the user answers: its content stays what it was, and
\* the user is asked neither whether to create it nor for prefixes or filters.
C21_ExistingBatchFileIsKept ==
    (op = "setup" /\ batch_at_start.some) =>
        /\ batch_file = batch_at_start
        /\ ~AskedAny(BatchOnlyQuestions)

\* setup ran to its end over an existing batch file, with a probe that
\* reached the server and one that did not
C21_Witness ==
    /\ op = "setup" /\ pc = "done" /\ exit_code = Some(0)
    /\ batch_at_start = Some(OldBatchFile)
    /\ overwrite = Some(TRUE)
    /\ \E i \in 1..Len(presults) : presults[i][2]
    /\ \E i \in 1..Len(presults) : ~presults[i][2]

\* and without a batch file the user is asked and the file is written
C21_WitnessCreated ==
    /\ op = "setup" /\ pc = "done"
    /\ ~batch_at_start.some
    /\ batch_file.some
    /\ AskedAny({"prefix"})

(* ------------------------------------------------------------------ *)
(* get over every integer page size and cap                             *)
(* ------------------------------------------------------------------ *)
\* NetBoxSettings.page_size is an int without a constraint, and --limit is
\* an int without one
PagingSizes == (-1)..MaxPageSize
PagingCaps == {None} \cup {Some(c) : c \in (-1)..MaxCap}

\* the caller's filters, also ones named like the pagination parameters
PagingParams ==
    { None, Some([status |-> "active", limit |-> 7]), Some([offset |-> 9]) }

PagingServers ==
    { [mode |-> m, data |-> Take(RecList, n)] :
        m \in {"honest", "clamped", "loose"}, n \in 0..MaxN }

PagingInit ==
    /\ cfg_page_size \in PagingSizes
    /\ op = "idle"
    /\ pc = "idle"
    /\ server = DownServer
    /\ reqs = <<>>
    /\ outs = <<>>
    /\ ret = NoRet
    /\ GetInit
    /\ ProbeInit
    /\ BatchInit
    /\ settings = "ok"
    /\ CmdInit
    /\ SeqInit
    /\ PureInit
    /\ SetupInit

\* a call of get; arg keeps the mapping as the caller passed it
PagingGet ==
    /\ pc = "idle"
    /\ \E ps \in PagingParams, mr \in PagingCaps, srv \in PagingServers :
          /\ GetEnter("ipam/prefixes/", ps, mr, srv)
          /\ arg' = <<ps>>
    /\ op' = "get"
    /\ UNCHANGED <<cfg_page_size, probeVars, batchVars, cmdVars, seqVars, val, setupVars, lifeVars>>

PagingNext == PagingGet \/ GetStep

SpecPaging == PagingInit /\ [][PagingNext]_vars

(* ------------------------------------------------------------------ *)
(* Properties of get over every page size and cap                       *)
(* ------------------------------------------------------------------ *)
\* the cap check on everything the pages carried so far
CapMet == max_results.some /\ Len(received) >= max_results.v

\* C22: after a page, get goes on to another request exactly when the cap is
\* not met and the page signalled a next page; the number of records on the
\* page plays no part, so a short or empty page with a next signal is followed
\* by another request.
C22_ContinuesOnNextSignalOnly ==
    (op = "get" /\ nResp >= 1 /\ pc \in {"get_loop", "done"}) =>
        ((pc = "get_loop") <=> (~CapMet /\ noNextSeen = 0))

\* two requests were made although the first page was empty and the page
\* size positive
C22_Witness ==
    /\ op = "get" /\ page_size >= 1
    /\ nResp = 2 /\ Len(reqs) = 2
    /\ received = <<>>
    /\ server.data # <<>>

\* C23: the effective page size is min(configured, cap) with a cap and the
\* configured page size without; every request carries it as limit, and the
\* k-th request (from 0) carries offset k times it, whatever the pages held.
C23_LimitAndOffsetFollowPageSize ==
    op = "get" =>
        LET eff == IF max_results.some /\ max_results.v < cfg_page_size
                   THEN max_results.v ELSE cfg_page_size
        IN  /\ page_size = eff
            /\ \A k \in 1..Len(reqs) :
                /\ reqs[k].params["limit"] = eff
                /\ reqs[k].params["offset"] = (k - 1) * eff

\* a cap below the configured page size, and a second request after a page
\* that did not hold a full page
C23_Witness ==
    /\ op = "get"
    /\ max_results.some /\ max_results.v >= 1 /\ max_results.v < cfg_page_size
    /\ Len(reqs) >= 2
    /\ Len(received) < page_size

\* C24: with max_results = 0 get sends exactly one request, with limit 0 and
\* offset 0, and returns an empty list whatever the page holds and signals.
C24_CapZeroOneRequestEmptyList ==
    (op = "get" /\ max_results = Some(0)) =>
        /\ Len(reqs) <= 1
        /\ \A k \in 1..Len(reqs) :
            reqs[k].params["limit"] = 0 /\ reqs[k].params["offset"] = 0
        /\ nResp >= 1 => (pc = "done" /\ ret = RetList(<<>>))

\* C26: without a cap, get returns every record of the dataset exactly once,
\* in order, also when the server serves fewer records per page than the
\* limit asks for while it signals a next page.
C26_UncappedGetReturnsWholeDataset ==
    (op = "get" /\ pc = "done" /\ ~max_results.some
        /\ server.mode \in {"honest", "clamped"}) =>
        ret = RetList(server.data)

\* C27: within one get call the offsets of successive requests are strictly
\* increasing, for every page size the settings accept.
C27_OffsetsStrictlyIncrease ==
    op = "get" =>
        \A k \in 2..Len(reqs) :
            reqs[k].params["offset"] > reqs[k - 1].params["offset"]

\* C28: for every integer max_results, zero and negative ones included, get
\* returns at most max(max_results, 0) records.
C28_AtMostCapRecords ==
    (op = "get" /\ pc = "done" /\ max_results.some) =>
        Len(ret.list) <= (IF max_results.v > 0 THEN max_results.v ELSE 0)

\* the filters the caller passed, as it passed them
CallerParams == ParamsOrEmpty(arg[1])

\* C30: get leaves the caller's mapping as it was; the limit and offset of
\* every request are get's own pagination values also when the caller passed
\* filters of those names; every other filter of the caller is sent unchanged
\* with every request, and nothing else is sent.
C30_PaginationKeysOverrideCallerFilters ==
    op = "get" =>
        /\ params = arg[1]
        /\ \A k \in 1..Len(reqs) :
            /\ DOMAIN reqs[k].params = DOMAIN CallerParams \cup {"limit", "offset"}
            /\ reqs[k].params["limit"] = page_size
            /\ reqs[k].params["offset"] = (k - 1) * page_size
            /\ \A key \in DOMAIN CallerParams \ {"limit", "offset"} :
                reqs[k].params[key] = CallerParams[key]

\* the caller passed a limit of its own next to another filter, and a second
\* page was requested
C30_Witness ==
    /\ op = "get" /\ Len(reqs) >= 2
    /\ {"limit", "status"} \subseteq DOMAIN CallerParams
    /\ CallerParams["limit"] # page_size

\* and the caller passed an offset of its own
C30_WitnessOffset ==
    /\ op = "get" /\ Len(reqs) >= 2
    /\ "offset" \in DOMAIN CallerParams

(* ------------------------------------------------------------------ *)
(* Validation and the client's lifetime in the commands                 *)
(* ------------------------------------------------------------------ *)
\* a record lacks a field its model requires
Invalid(ep, raw) == \E f \in RequiredFields(ep) : f \notin DOMAIN raw

\* the command got past its fetches: it ended, and not in an error of get or
\* of building the parameters
PastFetch ==
    \/ pc = "done"
    \/ pc = "raised" /\ ret.err = "ValidationError"

\* a listing whose result set holds an invalid record
ListHasInvalid ==
    op = "list" /\ PastFetch /\ \E i \in 1..Len(results) : Invalid(endpoint, results[i])

\* a batch one of whose result sets holds an invalid record
BatchHasInvalid ==
    op = "batch" /\ PastFetch
        /\ \E j \in 1..Len(fetched) : \E i \in 1..Len(fetched[j]) :
               Invalid("ipam/prefixes/", fetched[j][i])

\* C25: when a record of a fetched result set does not validate, the listing
\* or batch command fails, with status 1, and renders nothing: the invalid
\* record is not skipped and the valid records next to it are not shown.
C25_ValidationIsWholesale ==
    (ListHasInvalid \/ BatchHasInvalid) =>
        /\ pc = "raised"
        /\ exit_code = Some(1)
        /\ output = <<>>

\* a prefixes listing fetched valid records and an invalid one
C25_Witness ==
    /\ ListHasInvalid
    /\ endpoint = "ipam/prefixes/"
    /\ \E i \in 1..Len(results) : ~Invalid(endpoint, results[i])

\* a batch whose second result set holds the invalid record, after a first
\* key with valid records
C25_WitnessBatch ==
    /\ BatchHasInvalid
    /\ Len(fetched) = 2
    /\ fetched[1] # <<>>
    /\ \A i \in 1..Len(fetched[1]) : ~Invalid("ipam/prefixes/", fetched[1][i])

\* the command is inside _fetch: its get is running
InFetch == op \in {"batch", "list"} /\ pc = "get_loop"

\* C29: every client _fetch opens is closed exactly once before _fetch
\* returns or raises, also when get fails: while a fetch runs exactly one
\* client is open, between fetches and at the end of the command none is.
C29_ClientClosedOncePerFetch ==
    op \in {"batch", "list"} =>
        /\ closed <= opened
        /\ InFetch => opened = closed + 1
        /\ ~InFetch => opened = closed
        /\ settings = "ok" => opened = Len(fetches)

\* the second fetch of a batch failed with an HTTP error
C29_Witness ==
    /\ op = "batch" /\ pc = "raised" /\ ret.err = "HTTPStatusError"
    /\ opened = 2 /\ closed = 2

\* a batch of two keys ran to its end
C29_WitnessDone ==
    /\ op = "batch" /\ pc = "done"
    /\ opened = 2 /\ closed = 2

====
